---- MODULE Spec2Model ----
(***************************************************************************)
(* A model of flowrs: the grid (board.rs), the backtracking solver         *)
(* (backtracking.rs), the A* solver (astar.rs), the SAT solver (sat.rs)    *)
(* and the text loader (utils.rs).                                         *)
(*                                                                         *)
(* A Point is <<x, y>>.  A Cell is a record [kind, colour, solved]; the    *)
(* Empty cell carries colour "None" and solved FALSE so that equality of   *)
(* cells is equality of records.  Cell of board.rs carries a `solved`      *)
(* flag; backtracking.rs, astar.rs and sat.rs build and match cells        *)
(* without naming it: a cell they build has solved = FALSE and a pattern   *)
(* of theirs matches either value of the flag.                             *)
(*                                                                         *)
(* A std HashMap is iterated in an order fixed for the life of the map     *)
(* and unknown to the program: every map that the code iterates has its    *)
(* order chosen nondeterministically when it is built.                     *)
(***************************************************************************)
EXTENDS Integers, Sequences, FiniteSets, TLC

\* ------------------------------------------------------------------ bounds
\* Input grids have at most MaxCells cells and at most MaxColours colours.
MaxCells == 6
MaxColours == 2
\* Grids and files handled by direct calls have at most GridMaxCells cells.
GridMaxCells == 4

\* The most events the terminal holds unread.
MaxKeys == 2

\* ------------------------------------------------------------ generic helpers
Range(s) == {s[i] : i \in 1..Len(s)}

\* The element of a one-element set; it binds an operator's arguments to their
\* values before the operator's body uses them.
Value(S) == CHOOSE v \in S : TRUE

RECURSIVE Flatten(_)
Flatten(ss) == IF ss = <<>> THEN <<>> ELSE Head(ss) \o Flatten(Tail(ss))

RECURSIVE SetToSeqs(_)
SetToSeqs(S) ==
    IF S = {} THEN {<<>>}
    ELSE UNION {{<<x>> \o r : r \in SetToSeqs(S \ {x})} : x \in S}

\* The orders in which a HashMap with key set S may be iterated.
IterationOrders(S) == SetToSeqs(S)

\* ------------------------------------------------------------------ board.rs
\* enum Colour, in declaration order (the order of `colour as u64`).
ColourTags ==
    <<"Red", "Green", "Blue", "Yellow", "Magenta", "Orange", "Cyan", "Brown",
      "Purple", "White", "Gray", "Lime", "Beige", "Navy", "Teal", "Pink">>

Colour == Range(ColourTags)

ColourIndex(c) == CHOOSE i \in 1..Len(ColourTags) : ColourTags[i] = c

\* The panic of Colour::from_char on a letter that names no colour.
InvalidChar == [panic |-> "Invalid char"]

\* The arms of the match in Colour::from_char.
from_char_arms ==
    [R |-> "Red", B |-> "Blue", G |-> "Green", M |-> "Magenta", Y |-> "Yellow",
     O |-> "Orange", C |-> "Cyan", m |-> "Brown", P |-> "Purple", W |-> "White",
     g |-> "Gray", L |-> "Lime", b |-> "Beige", N |-> "Navy", T |-> "Teal",
     p |-> "Pink"]

from_char(c) == IF c \in DOMAIN from_char_arms THEN from_char_arms[c] ELSE InvalidChar

Empty == [kind |-> "Empty", colour |-> "None", solved |-> FALSE]
Endpoint(c, s) == [kind |-> "Endpoint", colour |-> c, solved |-> s]
Path(c, s) == [kind |-> "Path", colour |-> c, solved |-> s]

\* Cell::colour matched against `colour` in the arms
\* `Cell::Path { colour: c, .. } | Cell::Endpoint { colour: c, .. } if c == colour`.
HasColour(cell, colour) == cell.kind # "Empty" /\ cell.colour = colour

Points(w, h) == (0..(w - 1)) \X (0..(h - 1))

\* The cells in the order of `for y in 0..height { for x in 0..width`.
RowMajor(w, h) == [i \in 1..(w * h) |-> <<(i - 1) % w, (i - 1) \div w>>]

neighbors(p, width, height) ==
    (IF p[1] > 0 THEN <<<<p[1] - 1, p[2]>>>> ELSE <<>>)
    \o (IF p[1] + 1 < width THEN <<<<p[1] + 1, p[2]>>>> ELSE <<>>)
    \o (IF p[2] > 0 THEN <<<<p[1], p[2] - 1>>>> ELSE <<>>)
    \o (IF p[2] + 1 < height THEN <<<<p[1], p[2] + 1>>>> ELSE <<>>)

get(grid, point) == grid.cells[point]

set(grid, point, cell) == [grid EXCEPT !.cells[point] = cell]

\* Grid::new: every cell Empty but the two endpoints of each colour.
GridNew(width, height, endpoints) ==
    [width |-> width, height |-> height,
     cells |-> [p \in Points(width, height) |->
        IF \E c \in DOMAIN endpoints : p = endpoints[c][1] \/ p = endpoints[c][2]
        THEN Endpoint(CHOOSE c \in DOMAIN endpoints :
                          p = endpoints[c][1] \/ p = endpoints[c][2], FALSE)
        ELSE Empty]]

\* The Endpoint cells of one colour, in scan order.
EndpointsOf(grid, colour) ==
    SelectSeq(RowMajor(grid.width, grid.height),
              LAMBDA p : get(grid, p).kind = "Endpoint" /\ get(grid, p).colour = colour)

ColoursPresent(grid) ==
    {get(grid, p).colour : p \in {q \in DOMAIN grid.cells : get(grid, q).kind = "Endpoint"}}

\* The assert!(points.len() == 2, ..) of get_endpoints and of grid_from_txt
\* failing: a panic, and no mapping comes back.
MalformedEndpoints == [panic |-> "assert points.len() == 2"]

\* get_endpoints without its assert: a colour with more than two endpoints
\* is mapped to its first two.
get_endpoints_FirstTwo(grid) ==
    IF \A c \in ColoursPresent(grid) : Len(EndpointsOf(grid, c)) >= 2
    THEN [c \in ColoursPresent(grid) |->
              <<EndpointsOf(grid, c)[1], EndpointsOf(grid, c)[2]>>]
    ELSE MalformedEndpoints

get_endpoints(grid) ==
    IF \A c \in ColoursPresent(grid) : Len(EndpointsOf(grid, c)) = 2
    THEN [c \in ColoursPresent(grid) |->
              <<EndpointsOf(grid, c)[1], EndpointsOf(grid, c)[2]>>]
    ELSE MalformedEndpoints

\* connected stepping through every cell that is not Empty, whatever its colour.
RECURSIVE connectedLoop_AnyColour(_, _, _, _, _)
connectedLoop_AnyColour(grid, colour, end, queue_in, visited_in) ==
    \E queue \in {queue_in} : \E visited \in {visited_in} :
    IF queue = <<>> THEN FALSE
    ELSE LET current == Head(queue)
             fresh == SelectSeq(neighbors(current, grid.width, grid.height),
                         LAMBDA n : n \notin visited /\ get(grid, n).kind # "Empty")
         IN IF current = end THEN TRUE
            ELSE connectedLoop_AnyColour(grid, colour, end, Tail(queue) \o fresh,
                                         visited \cup Range(fresh))

RECURSIVE connectedLoop(_, _, _, _, _)
connectedLoop(grid, colour, end, queue_in, visited_in) ==
    \E queue \in {queue_in} : \E visited \in {visited_in} :
    IF queue = <<>> THEN FALSE
    ELSE LET current == Head(queue)
             fresh == SelectSeq(neighbors(current, grid.width, grid.height),
                         LAMBDA n : n \notin visited /\ HasColour(get(grid, n), colour))
         IN IF current = end THEN TRUE
            ELSE connectedLoop(grid, colour, end, Tail(queue) \o fresh,
                               visited \cup Range(fresh))

connected(grid, colour, start, end) ==
    connectedLoop(grid, colour, end, <<start>>, {start})

\* is_solved without its loop over the endpoints.
is_solved_FullOnly(grid, endpoints) ==
    \A p \in DOMAIN grid.cells : get(grid, p).kind # "Empty"

\* is_solved without its scan for Empty cells.
is_solved_ConnectedOnly(grid, endpoints) ==
    \A colour \in DOMAIN endpoints :
        connected(grid, colour, endpoints[colour][1], endpoints[colour][2])

is_solved(grid, endpoints) ==
    /\ \A p \in DOMAIN grid.cells : get(grid, p).kind # "Empty"
    /\ \A colour \in DOMAIN endpoints :
          connected(grid, colour, endpoints[colour][1], endpoints[colour][2])

on_border(p, width, height) ==
    p[1] = 0 \/ p[1] = width - 1 \/ p[2] = 0 \/ p[2] = height - 1

is_adjacent_to_solved(grid, point) ==
    \E n \in Range(neighbors(point, grid.width, grid.height)) :
        get(grid, n).kind # "Empty" /\ get(grid, n).solved

RECURSIVE find_all_paths(_, _, _, _, _, _)
RECURSIVE find_all_paths_each(_, _, _, _, _, _)
\* The body of the `for neighbor in current.neighbors(..)` loop, over `ns`.
find_all_paths_each(grid, ns, end, colour, visited, path) ==
    IF ns = <<>> THEN <<>>
    ELSE LET neighbor == Head(ns)
             cell == get(grid, neighbor)
             sub == IF neighbor \in visited THEN <<>>
                    ELSE IF cell.kind = "Empty" \/ HasColour(cell, colour)
                    THEN find_all_paths(grid, neighbor, end, colour, visited,
                                        Append(path, neighbor))
                    ELSE <<>>
         IN sub \o find_all_paths_each(grid, Tail(ns), end, colour, visited, path)

find_all_paths(grid, current, end, colour, visited, path) ==
    IF current = end THEN <<path>>
    ELSE find_all_paths_each(grid, neighbors(current, grid.width, grid.height),
                             end, colour, visited \cup {current}, path)

\* `while let Some(&prev) = came_from.get(&cur)`, then path.reverse().
RECURSIVE reconstruct(_, _)
reconstruct(came_from, cur) ==
    IF cur \in DOMAIN came_from
    THEN Append(reconstruct(came_from, came_from[cur]), cur)
    ELSE <<cur>>

\* The restricted breadth-first search of guaranteed_path_exists; <<>> when the
\* queue empties before `end` is popped.
RECURSIVE restricted_bfs(_, _, _, _, _, _)
restricted_bfs(grid, end, colour, queue, visited, came_from) ==
    IF queue = <<>> THEN <<>>
    ELSE LET current == Head(queue)
             can_traverse(n) == on_border(n, grid.width, grid.height)
                                \/ is_adjacent_to_solved(grid, n)
             fresh == SelectSeq(neighbors(current, grid.width, grid.height),
                         LAMBDA n : /\ n \notin visited
                                    /\ can_traverse(n)
                                    /\ \/ get(grid, n).kind = "Empty"
                                       \/ HasColour(get(grid, n), colour))
             from == [n \in Range(fresh) |-> current]
         IN IF current = end THEN reconstruct(came_from, current)
            ELSE restricted_bfs(grid, end, colour, Tail(queue) \o fresh,
                                visited \cup Range(fresh), from @@ came_from)

\* guaranteed_path_exists without the exactly-one test of its fallback.
guaranteed_path_exists_FirstPath(grid, start, end, colour) ==
    LET found == restricted_bfs(grid, end, colour, <<start>>, {start}, <<>>)
        all_paths == find_all_paths(grid, start, end, colour, {}, <<start>>)
    IN IF found # <<>> THEN found
       ELSE IF Len(all_paths) >= 1 THEN all_paths[1]
       ELSE <<>>

\* Some(path) is the path; None is <<>>.
guaranteed_path_exists(grid, start, end, colour) ==
    LET found == restricted_bfs(grid, end, colour, <<start>>, {start}, <<>>)
        all_paths == find_all_paths(grid, start, end, colour, {}, <<start>>)
    IN IF found # <<>> THEN found
       ELSE IF Len(all_paths) = 1 THEN all_paths[1]
       ELSE <<>>

mark_solved(grid, colour) ==
    [grid EXCEPT !.cells = [p \in DOMAIN grid.cells |->
        IF HasColour(grid.cells[p], colour)
        THEN [grid.cells[p] EXCEPT !.solved = TRUE]
        ELSE grid.cells[p]]]

\* What one colour adds to `updates` in a pass of fill_guaranteed's loop.
fill_updates(grid, endpoints, colour) ==
    LET start == endpoints[colour][1]
        end == endpoints[colour][2]
        start_valid == on_border(start, grid.width, grid.height)
                       \/ is_adjacent_to_solved(grid, start)
        end_valid == on_border(end, grid.width, grid.height)
                     \/ is_adjacent_to_solved(grid, end)
    IN IF connected(grid, colour, start, end) THEN <<>>
       ELSE IF ~(start_valid /\ end_valid) THEN <<>>
       ELSE LET path == guaranteed_path_exists(grid, start, end, colour)
            IN [i \in 1..Len(SelectSeq(path, LAMBDA p : get(grid, p).kind = "Empty")) |->
                   <<SelectSeq(path, LAMBDA p : get(grid, p).kind = "Empty")[i],
                     Path(colour, TRUE)>>]

RECURSIVE apply_updates(_, _)
apply_updates(grid, updates) ==
    IF updates = <<>> THEN grid
    ELSE apply_updates(set(grid, Head(updates)[1], Head(updates)[2]), Tail(updates))

RECURSIVE mark_all_solved(_, _)
mark_all_solved(grid, colours) ==
    IF colours = <<>> THEN grid
    ELSE mark_all_solved(mark_solved(grid, Head(colours)), Tail(colours))

\* fill_guaranteed, `order` being the iteration order of `endpoints`.
RECURSIVE fill_guaranteed(_, _, _)
fill_guaranteed(grid, endpoints, order) ==
    LET per_colour == [i \in 1..Len(order) |-> fill_updates(grid, endpoints, order[i])]
        updates == Flatten(per_colour)
        solved_colours == SelectSeq(order,
                              LAMBDA c : fill_updates(grid, endpoints, c) # <<>>)
    IN IF updates = <<>> THEN grid
       ELSE fill_guaranteed(mark_all_solved(apply_updates(grid, updates), solved_colours),
                            endpoints, order)

\* ----------------------------------------------------------- backtracking.rs
RECURSIVE find_paths(_, _, _, _, _, _)
RECURSIVE find_paths_each(_, _, _, _, _, _)
find_paths_each(grid, ns, end, colour, visited, path) ==
    IF ns = <<>> THEN <<>>
    ELSE LET neighbour == Head(ns)
             cell == get(grid, neighbour)
             sub == IF neighbour \in visited THEN <<>>
                    ELSE IF cell.kind = "Empty" \/ HasColour(cell, colour)
                    THEN find_paths(grid, neighbour, end, colour, visited,
                                    Append(path, neighbour))
                    ELSE <<>>
         IN sub \o find_paths_each(grid, Tail(ns), end, colour, visited, path)

find_paths(grid, current, end, colour, visited, path) ==
    IF current = end THEN <<path>>
    ELSE find_paths_each(grid, neighbors(current, grid.width, grid.height),
                         end, colour, visited \cup {current}, path)

\* The painting loop without its test for Empty.
RECURSIVE paint_path_Unchecked(_, _, _)
paint_path_Unchecked(grid, path, colour) ==
    IF path = <<>> THEN grid
    ELSE paint_path_Unchecked(set(grid, Head(path), Path(colour, FALSE)), Tail(path), colour)

\* `for &p in path { if matches!(grid.get(p), Cell::Empty) { grid.set(p, Path) } }`
RECURSIVE paint_path(_, _, _)
paint_path(grid, path, colour) ==
    IF path = <<>> THEN grid
    ELSE paint_path(IF get(grid, Head(path)).kind = "Empty"
                    THEN set(grid, Head(path), Path(colour, FALSE))
                    ELSE grid,
                    Tail(path), colour)

\* `for &p in path { if let Cell::Path { colour: c } = grid.get(p) { if c == colour ..`
RECURSIVE unpaint_path(_, _, _)
unpaint_path(grid, path, colour) ==
    IF path = <<>> THEN grid
    ELSE unpaint_path(IF get(grid, Head(path)).kind = "Path"
                         /\ get(grid, Head(path)).colour = colour
                      THEN set(grid, Head(path), Empty)
                      ELSE grid,
                      Tail(path), colour)

\* backtrack of brute_force as a function: what it returns and the grid it
\* leaves, for the pairs in the order `order`.
RECURSIVE backtrack(_, _, _, _), backtrack_paths(_, _, _, _, _, _)
backtrack(grid, endpoints, order, index) ==
    IF index = Len(order)
    THEN [ok |-> is_solved(grid, endpoints), grid |-> grid]
    ELSE LET colour == order[index + 1]
             start == endpoints[colour][1]
             end == endpoints[colour][2]
             all_paths == find_paths(grid, start, end, colour, {}, <<>>)
         IN IF connected(grid, colour, start, end)
            THEN backtrack(grid, endpoints, order, index + 1)
            ELSE IF all_paths = <<>>
            THEN [ok |-> FALSE, grid |-> grid]
            ELSE backtrack_paths(grid, endpoints, order, index, all_paths, 1)

\* The loop of backtrack over all_paths, from the k-th path on.
backtrack_paths(grid, endpoints, order, index, all_paths, k) ==
    IF k > Len(all_paths)
    THEN [ok |-> FALSE, grid |-> grid]
    ELSE LET colour == order[index + 1]
             path == all_paths[k]
             below == backtrack(fill_guaranteed(paint_path(grid, path, colour),
                                                endpoints, order),
                                endpoints, order, index + 1)
         IN IF below.ok
            THEN below
            ELSE backtrack_paths(unpaint_path(below.grid, path, colour),
                                 endpoints, order, index, all_paths, k + 1)

\* brute_force on `grid` when the endpoint map iterates in the order `order`.
brute_force(grid, order) ==
    LET endpoints == get_endpoints(grid)
        out == backtrack(fill_guaranteed(grid, endpoints, order), endpoints, order, 0)
    IN [result |-> IF out.ok THEN "Solved" ELSE "Impossible", grid |-> out.grid]

\* ------------------------------------------------------------------ astar.rs
\* Option<T>: None is <<>>, Some(v) is <<v>>.
NoneOpt == <<>>
Some(v) == <<v>>

last(path) == path[Len(path)]

heuristic(grid) == Cardinality({p \in DOMAIN grid.cells : get(grid, p).kind = "Empty"})

dead_end(grid) ==
    \E p \in DOMAIN grid.cells :
        /\ get(grid, p).kind = "Empty"
        /\ Cardinality({n \in Range(neighbors(p, grid.width, grid.height)) :
                           get(grid, n).kind # "Empty"}) >= 3

\* The inner `while let Some((cx, cy)) = queue.pop_front()` of label_regions.
RECURSIVE label_flood(_, _, _, _)
label_flood(grid, queue_in, labels_in, next_label) ==
    LET iteration(queue, labels) ==
            IF queue = <<>> THEN labels
            ELSE LET fresh == SelectSeq(neighbors(Head(queue), grid.width, grid.height),
                                 LAMBDA n : get(grid, n).kind = "Empty" /\ labels[n] = -1)
                 IN label_flood(grid, Tail(queue) \o fresh,
                                [q \in DOMAIN labels |->
                                     IF q \in Range(fresh) THEN next_label ELSE labels[q]],
                                next_label)
    IN Value({iteration(queue, labels) : queue \in {queue_in}, labels \in {labels_in}})

\* The scan of label_regions from the i-th cell on.
RECURSIVE label_scan(_, _, _, _)
label_scan(grid, i, labels_in, next_label) ==
    LET iteration(labels) ==
            IF i > grid.width * grid.height THEN labels
            ELSE LET p == RowMajor(grid.width, grid.height)[i]
                 IN IF get(grid, p).kind = "Empty" /\ labels[p] = -1
                    THEN label_scan(grid, i + 1,
                                    label_flood(grid, <<p>>,
                                                [labels EXCEPT ![p] = next_label],
                                                next_label),
                                    next_label + 1)
                    ELSE label_scan(grid, i + 1, labels, next_label)
    IN Value({iteration(labels) : labels \in {labels_in}})

label_regions(grid) == label_scan(grid, 1, [p \in DOMAIN grid.cells |-> -1], 0)

\* colour_touches[colour] of stranded: the labels of the Empty cells next to the
\* colour's head or to its goal endpoint.
colour_touches(grid, endpoints, paths, labels, colour) ==
    {labels[n] : n \in {m \in Range(neighbors(last(paths[colour]), grid.width, grid.height))
                               \cup Range(neighbors(endpoints[colour][2], grid.width, grid.height)) :
                           get(grid, m).kind = "Empty" /\ labels[m] >= 0}}

\* region_touches[label] of stranded.
region_touches(grid, endpoints, paths, labels, label) ==
    {colour \in DOMAIN paths : label \in colour_touches(grid, endpoints, paths, labels, colour)}

stranded(grid, endpoints, paths) ==
    \E labels \in {label_regions(grid)} :
    LET unfinished == {c \in DOMAIN paths : last(paths[c]) # endpoints[c][2]}
        all_labels == 0..(grid.width * grid.height - 1)
    IN \/ \E colour \in unfinished :
            ~ \E label \in all_labels :
                /\ colour \in region_touches(grid, endpoints, paths, labels, label)
                /\ label \in colour_touches(grid, endpoints, paths, labels, colour)
       \/ \E label \in all_labels :
            /\ region_touches(grid, endpoints, paths, labels, label) # {}
            /\ ~ \E colour \in unfinished :
                    label \in colour_touches(grid, endpoints, paths, labels, colour)

\* The Empty neighbours of a colour's head, in neighbors order.
head_moves(grid, paths, colour) ==
    SelectSeq(neighbors(last(paths[colour]), grid.width, grid.height),
              LAMBDA n : get(grid, n).kind = "Empty")

\* flow_colours of get_forced_moves for the Empty cell p.
flow_colours(grid, paths, porder, p) ==
    Flatten([i \in 1..Len(neighbors(p, grid.width, grid.height)) |->
        SelectSeq(porder,
            LAMBDA colour : neighbors(p, grid.width, grid.height)[i] = last(paths[colour]))])

\* get_forced_moves, `porder` being the iteration order of `paths`;
\* Some(<<colour, point>>) or None.
\* get_forced_moves that finds no forced move.
get_forced_moves_Never(grid, endpoints, paths, porder) == NoneOpt

get_forced_moves(grid, endpoints, paths, porder) ==
    LET single == SelectSeq(porder,
                      LAMBDA colour : /\ last(paths[colour]) # endpoints[colour][2]
                                      /\ Len(head_moves(grid, paths, colour)) = 1)
        lone == SelectSeq(RowMajor(grid.width, grid.height),
                      LAMBDA p : /\ get(grid, p).kind = "Empty"
                                 /\ Len(flow_colours(grid, paths, porder, p)) = 1)
    IN IF single # <<>>
       THEN Some(<<single[1], head_moves(grid, paths, single[1])[1]>>)
       ELSE IF lone # <<>>
       THEN Some(<<flow_colours(grid, paths, porder, lone[1])[1], lone[1]>>)
       ELSE NoneOpt

\* get_active_colour: the first colour of the iteration with the fewest moves.
get_active_colour(grid, endpoints, paths, porder) ==
    LET unfinished == SelectSeq(porder,
                          LAMBDA colour : last(paths[colour]) # endpoints[colour][2])
        moves(colour) == Len(head_moves(grid, paths, colour))
        firsts == SelectSeq(unfinished,
                      LAMBDA colour : \A i \in 1..Len(unfinished) :
                                          moves(unfinished[i]) >= moves(colour))
    IN IF unfinished = <<>> THEN NoneOpt ELSE Some(firsts[1])

\* u64 as four 16-bit limbs, least significant first.
Limb == 65536

\* acc.wrapping_mul(31).wrapping_add(code)
wrapping_mul31_add(acc, code) ==
    LET t1 == acc[1] * 31 + code
        t2 == acc[2] * 31 + (t1 \div Limb)
        t3 == acc[3] * 31 + (t2 \div Limb)
        t4 == acc[4] * 31 + (t3 \div Limb)
    IN <<t1 % Limb, t2 % Limb, t3 % Limb, t4 % Limb>>

cell_code(cell) ==
    IF cell.kind = "Empty" THEN 0
    ELSE IF cell.kind = "Endpoint" THEN 1 + (ColourIndex(cell.colour) - 1)
    ELSE 100 + (ColourIndex(cell.colour) - 1)

RECURSIVE hash_fold(_, _, _)
hash_fold(grid, i, acc_in) ==
    LET iteration(acc) ==
            IF i > grid.width * grid.height THEN acc
            ELSE hash_fold(grid, i + 1,
                     wrapping_mul31_add(acc,
                         cell_code(get(grid, RowMajor(grid.width, grid.height)[i]))))
    IN Value({iteration(acc) : acc \in {acc_in}})

grid_hash(grid) == hash_fold(grid, 1, <<0, 0, 0, 0>>)

\* The forced move that extends the path and leaves the grid as it was.
forced_state_Unpainted(state, colour, forced_move) ==
    [state EXCEPT !.paths[colour] = Append(@, forced_move)]

\* The state after the forced move (colour, forced_move).
forced_state(state, colour, forced_move) ==
    LET new_grid == set(state.grid, forced_move, Path(colour, FALSE))
    IN [grid |-> new_grid,
        endpoints |-> state.endpoints,
        paths |-> [state.paths EXCEPT ![colour] = Append(@, forced_move)],
        cost |-> state.cost,
        estimate |-> heuristic(new_grid)]

\* The states pushed for the active colour, in push order.
successors(state, active_colour) ==
    LET path == state.paths[active_colour]
        ns == SelectSeq(neighbors(last(path), state.grid.width, state.grid.height),
                  LAMBDA n : \/ get(state.grid, n).kind = "Empty"
                             \/ /\ get(state.grid, n).kind = "Endpoint"
                                /\ get(state.grid, n).colour = active_colour)
    IN [i \in 1..Len(ns) |->
           LET new_grid == IF get(state.grid, ns[i]).kind = "Empty"
                           THEN set(state.grid, ns[i], Path(active_colour, FALSE))
                           ELSE state.grid
           IN [grid |-> new_grid,
               endpoints |-> state.endpoints,
               paths |-> [state.paths EXCEPT ![active_colour] = Append(path, ns[i])],
               cost |-> state.cost + 1,
               estimate |-> (state.cost + 1) + heuristic(new_grid)]]

\* -------------------------------------------------------------------- sat.rs
LEFT == 1
RIGHT == 2
TOP == 4
BOTTOM == 8

\* The masks are disjoint bits, so `|` is the sum.
DIR_TYPES ==
    <<LEFT + RIGHT, TOP + BOTTOM, TOP + LEFT, TOP + RIGHT, BOTTOM + LEFT, BOTTOM + RIGHT>>

\* usize::MAX, the value of 0usize.wrapping_sub(1): beyond every width and height.
USIZE_MAX == 2147483647

wrapping_sub1(v) == IF v = 0 THEN USIZE_MAX ELSE v - 1

IndexOf(seq, v) == CHOOSE i \in 1..Len(seq) : seq[i] = v

non_endpoints(grid) ==
    SelectSeq(RowMajor(grid.width, grid.height), LAMBDA p : get(grid, p).kind # "Endpoint")

\* var_map[&(x, y, colour)], `colours` being endpoints.keys() in iteration order.
var_map(grid, colours, p, colour) ==
    (p[2] * grid.width + p[1]) * Len(colours) + IndexOf(colours, colour)

\* dir_map[&(x, y, dir_type)], numbered after the colour variables.
dir_map(grid, colours, p, dir_type) ==
    grid.width * grid.height * Len(colours)
    + (IndexOf(non_endpoints(grid), p) - 1) * Len(DIR_TYPES)
    + IndexOf(DIR_TYPES, dir_type)

\* The at-most-one clauses over a sequence of variables.
at_most_one(vs) ==
    {{-vs[i], -vs[j]} : i \in 1..Len(vs), j \in 1..Len(vs)} \ {{-vs[i]} : i \in 1..Len(vs)}

\* "Each cell must be exactly one color"
colour_clauses(grid, colours) ==
    UNION {{{var_map(grid, colours, p, c) : c \in Range(colours)}}
           \cup at_most_one([i \in 1..Len(colours) |-> var_map(grid, colours, p, colours[i])]) :
           p \in DOMAIN grid.cells}

\* "Endpoint constraints"
endpoint_clauses(grid, colours, endpoints) ==
    UNION {UNION {
        {{var_map(grid, colours, point, colour)}}
        \cup {{-var_map(grid, colours, point, other)} : other \in Range(colours) \ {colour}}
        \cup {{var_map(grid, colours, n, colour) :
                  n \in Range(neighbors(point, grid.width, grid.height))}}
        \cup at_most_one([i \in 1..Len(neighbors(point, grid.width, grid.height)) |->
                var_map(grid, colours, neighbors(point, grid.width, grid.height)[i], colour)]) :
        point \in {endpoints[colour][1], endpoints[colour][2]}} : colour \in DOMAIN endpoints}

\* "Each cell must have exactly one direction type"
direction_clauses(grid, colours) ==
    UNION {{{dir_map(grid, colours, p, t) : t \in Range(DIR_TYPES)}}
           \cup at_most_one([i \in 1..Len(DIR_TYPES) |-> dir_map(grid, colours, p, DIR_TYPES[i])]) :
           p \in Range(non_endpoints(grid))}

\* The two cells a direction type names, before the bounds filter.
dir_neighbors(p, dir_type) ==
    IF dir_type = LEFT + RIGHT THEN <<<<wrapping_sub1(p[1]), p[2]>>, <<p[1] + 1, p[2]>>>>
    ELSE IF dir_type = TOP + BOTTOM THEN <<<<p[1], wrapping_sub1(p[2])>>, <<p[1], p[2] + 1>>>>
    ELSE IF dir_type = TOP + LEFT THEN <<<<wrapping_sub1(p[1]), p[2]>>, <<p[1], wrapping_sub1(p[2])>>>>
    ELSE IF dir_type = TOP + RIGHT THEN <<<<p[1] + 1, p[2]>>, <<p[1], wrapping_sub1(p[2])>>>>
    ELSE IF dir_type = BOTTOM + LEFT THEN <<<<wrapping_sub1(p[1]), p[2]>>, <<p[1], p[2] + 1>>>>
    ELSE IF dir_type = BOTTOM + RIGHT THEN <<<<p[1] + 1, p[2]>>, <<p[1], p[2] + 1>>>>
    ELSE <<>>

valid_neighbors(grid, p, dir_type) ==
    SelectSeq(dir_neighbors(p, dir_type), LAMBDA n : n[1] < grid.width /\ n[2] < grid.height)

\* "Direction type neighbor color constraints and self-touching prevention",
\* for one cell, colour and direction type.
semantics_clauses(grid, colours, p, colour, dir_type) ==
    LET dir_var == dir_map(grid, colours, p, dir_type)
        cell_var == var_map(grid, colours, p, colour)
        valid == valid_neighbors(grid, p, dir_type)
    IN IF Len(valid) # 2 THEN {}
       ELSE UNION {{{-dir_var, -cell_var, var_map(grid, colours, valid[i], colour)},
                    {-dir_var, cell_var, -var_map(grid, colours, valid[i], colour)}} :
                   i \in 1..2}
            \cup {{-dir_var, -cell_var, -var_map(grid, colours, n, colour)} :
                     n \in Range(neighbors(p, grid.width, grid.height)) \ Range(valid)}

cell_semantics_clauses(grid, colours, p) ==
    UNION {semantics_clauses(grid, colours, p, c, t) : c \in Range(colours), t \in Range(DIR_TYPES)}

\* The formula handed to the SAT engine: a set of clauses, a clause a set of
\* DIMACS literals.
cnf(grid, colours, endpoints) ==
    colour_clauses(grid, colours)
    \cup endpoint_clauses(grid, colours, endpoints)
    \cup direction_clauses(grid, colours)
    \cup UNION {cell_semantics_clauses(grid, colours, p) : p \in Range(non_endpoints(grid))}

\* A model is given by the variables it makes true.
satisfies(true_vars, clauses) ==
    \A clause \in clauses :
        \E lit \in clause : IF lit > 0 THEN lit \in true_vars ELSE (-lit) \notin true_vars

\* The exactly-one clauses leave a model one colour per cell and one direction
\* type per non-endpoint cell: the model that makes x(p, col[p]) and
\* y(p, dir[p]) true and every other variable false.
true_vars_of(grid, colours, col, dir) ==
    {var_map(grid, colours, p, col[p]) : p \in DOMAIN col}
    \cup {dir_map(grid, colours, p, dir[p]) : p \in DOMAIN dir}

\* The direction types of cell p that satisfy `clauses`, the clauses naming the
\* direction variables of p, under colouring col.
dir_choices_in(grid, colours, col, p, clauses) ==
    LET xs == {var_map(grid, colours, q, col[q]) : q \in DOMAIN col}
    IN {t \in Range(DIR_TYPES) : satisfies(xs \cup {dir_map(grid, colours, p, t)}, clauses)}

dir_choices(grid, colours, col, p) ==
    dir_choices_in(grid, colours, col, p, cell_semantics_clauses(grid, colours, p))

\* The colourings of the models.  The unit clauses fix the colour of the
\* endpoint cells.  A clause with a direction variable names the direction
\* variables of one cell only, so a colouring extends to a model exactly when
\* every non-endpoint cell has a direction type of its own that satisfies the
\* clauses naming its direction variables.
model_colourings(grid, colours, endpoints) ==
    LET clauses == colour_clauses(grid, colours)
                   \cup endpoint_clauses(grid, colours, endpoints)
        free == Range(non_endpoints(grid))
        semantics == [p \in free |-> cell_semantics_clauses(grid, colours, p)]
        candidates == {[p \in DOMAIN grid.cells |->
                           IF p \in free THEN f[p] ELSE get(grid, p).colour] :
                       f \in [free -> Range(colours)]}
    IN {col \in candidates :
           /\ satisfies({var_map(grid, colours, q, col[q]) : q \in DOMAIN col}, clauses)
           /\ \A p \in free : dir_choices_in(grid, colours, col, p, semantics[p]) # {}}

\* The direction parts of the models with colouring col, over the cells `ps`.
RECURSIVE model_directions(_, _, _, _)
model_directions(grid, colours, col, ps) ==
    IF ps = <<>> THEN {<<>>}
    ELSE LET rest == model_directions(grid, colours, col, Tail(ps))
             here == dir_choices(grid, colours, col, Head(ps))
         IN {(Head(ps) :> t) @@ d : t \in here, d \in rest}

\* Every satisfying assignment of cnf, as [col, dir].
models(grid, colours, endpoints) ==
    UNION {{[col |-> col, dir |-> dir] :
               dir \in model_directions(grid, colours, col, non_endpoints(grid))} :
           col \in model_colourings(grid, colours, endpoints)}

\* The decoding loop for one cell: the first colour of `colours` whose variable
\* is true in the model, or None.
decode_colour(grid, colours, true_vars, p) ==
    LET found == SelectSeq(colours, LAMBDA c : var_map(grid, colours, p, c) \in true_vars)
    IN IF found = <<>> THEN NoneOpt ELSE Some(found[1])

\* The decoding that writes Path on every cell, the endpoints included.
decode_PathOnly(grid, colours, true_vars) ==
    IF \E p \in DOMAIN grid.cells : decode_colour(grid, colours, true_vars, p) = NoneOpt
    THEN NoneOpt
    ELSE Some([grid EXCEPT !.cells = [p \in DOMAIN grid.cells |->
                  Path(decode_colour(grid, colours, true_vars, p)[1], FALSE)]])

\* The Option<Grid> solve_sat returns for a model.
decode(grid, colours, true_vars) ==
    IF \E p \in DOMAIN grid.cells : decode_colour(grid, colours, true_vars, p) = NoneOpt
    THEN NoneOpt
    ELSE Some([grid EXCEPT !.cells = [p \in DOMAIN grid.cells |->
                  IF get(grid, p).kind = "Endpoint"
                  THEN Endpoint(decode_colour(grid, colours, true_vars, p)[1], FALSE)
                  ELSE Path(decode_colour(grid, colours, true_vars, p)[1], FALSE)]])

\* ----------------------------------------------------------------- utils.rs
\* char::is_ascii_alphabetic on a one-character string.
is_ascii_alphabetic(ch) ==
    ch \in {"A", "B", "C", "D", "E", "F", "G", "H", "I", "J", "K", "L", "M",
            "N", "O", "P", "Q", "R", "S", "T", "U", "V", "W", "X", "Y", "Z",
            "a", "b", "c", "d", "e", "f", "g", "h", "i", "j", "k", "l", "m",
            "n", "o", "p", "q", "r", "s", "t", "u", "v", "w", "x", "y", "z"}

\* The letters of a text with their positions, in reading order.
letters_of(lines) ==
    Flatten([y \in 1..Len(lines) |->
        SelectSeq([x \in 1..Len(lines[y]) |-> [ch |-> lines[y][x], at |-> <<x - 1, y - 1>>]],
                  LAMBDA l : is_ascii_alphabetic(l.ch))])

RECURSIVE max_len(_)
max_len(lines) ==
    IF lines = <<>> THEN 0
    ELSE IF Len(Head(lines)) > max_len(Tail(lines)) THEN Len(Head(lines))
         ELSE max_len(Tail(lines))

\* grid_from_txt on the lines of the file: the grid, or the panic it ends in.
grid_from_txt(lines) ==
    LET letters == letters_of(lines)
        named == SelectSeq(letters, LAMBDA l : l.ch \in DOMAIN from_char_arms)
        colours == {from_char(named[i].ch) : i \in 1..Len(named)}
        points(colour) == SelectSeq(named, LAMBDA l : from_char(l.ch) = colour)
    IN IF Len(named) # Len(letters) THEN InvalidChar
       ELSE IF \E colour \in colours : Len(points(colour)) # 2 THEN MalformedEndpoints
       ELSE GridNew(max_len(lines), Len(lines),
                    [colour \in colours |-> <<points(colour)[1].at, points(colour)[2].at>>])

\* ------------------------------------------------------------------ inputs
Dims == {d \in (1..MaxCells) \X (1..MaxCells) : d[1] * d[2] <= MaxCells}

\* The colour sets of the inputs: the first n tags, n = 1..MaxColours.
ColourSets == {{ColourTags[i] : i \in 1..n} : n \in 1..MaxColours}

\* Pairs of distinct cells, the first of the two earlier in scan order.
ScanPairs(w, h) ==
    {<<RowMajor(w, h)[i], RowMajor(w, h)[j]>> :
        i \in 1..(w * h), j \in 1..(w * h)} \cap
    {pq \in Points(w, h) \X Points(w, h) :
        pq[1][2] < pq[2][2] \/ (pq[1][2] = pq[2][2] /\ pq[1][1] < pq[2][1])}

\* The endpoint maps over a w x h grid: two cells per colour, no cell shared.
EndpointMaps(w, h, cs) ==
    {e \in [cs -> ScanPairs(w, h)] :
        \A c, d \in cs : c # d => Range(e[c]) \cap Range(e[d]) = {}}

\* The grids the loader builds within the bounds.
BoundedInputs ==
    UNION {UNION {{GridNew(d[1], d[2], e) : e \in EndpointMaps(d[1], d[2], cs)} :
                  cs \in ColourSets} : d \in Dims}

\* The 3x3 scenarios: border-only (two pairs on opposite corners) and single pair.
Border3x3 ==
    GridNew(3, 3, [c \in {"Red", "Green"} |->
        IF c = "Red" THEN <<<<0, 0>>, <<2, 2>>>> ELSE <<<<2, 0>>, <<0, 2>>>>])

Single3x3 == GridNew(3, 3, [c \in {"Red"} |-> <<<<0, 0>>, <<2, 2>>>>])

\* The 2x2 scenario: two pairs on the two diagonals.
Crossing2x2 ==
    GridNew(2, 2, [c \in {"Red", "Blue"} |->
        IF c = "Red" THEN <<<<0, 0>>, <<1, 1>>>> ELSE <<<<1, 0>>, <<0, 1>>>>])

\* A 3x4 grid with three pairs on which brute_force searches and gives up:
\*     . G R
\*     . . .
\*     . . B
\*     R B G
Crossed3x4 ==
    GridNew(3, 4, [c \in {"Red", "Green", "Blue"} |->
        IF c = "Red" THEN <<<<2, 0>>, <<0, 3>>>>
        ELSE IF c = "Green" THEN <<<<1, 0>>, <<2, 3>>>>
        ELSE <<<<2, 2>>, <<1, 3>>>>])

Inputs == BoundedInputs \cup {Border3x3, Single3x3, Crossing2x2, Crossed3x4}

\* The forced-move chain: one pair at the two ends of a row of five cells.
Line1x5 == GridNew(5, 1, [c \in {"Red"} |-> <<<<0, 0>>, <<4, 0>>>>])

\* A 3x3 grid with one pair on two neighbouring cells of the top row:
\*     R R .
\*     . . .
\*     . . .
Adjacent3x3 == GridNew(3, 3, [c \in {"Red"} |-> <<<<0, 0>>, <<1, 0>>>>])

\* A 4x3 grid with two pairs and more than one solution:
\*     . . . .
\*     . G R .
\*     R . . G
TwoWays4x3 ==
    GridNew(4, 3, [c \in {"Red", "Green"} |->
        IF c = "Red" THEN <<<<2, 1>>, <<0, 2>>>> ELSE <<<<1, 1>>, <<3, 2>>>>])

\* A 4x3 grid with three pairs on which a nested fill_guaranteed leaves a
\* Red cell behind that a later path of Red's frame runs through:
\*     . . B G
\*     R . . B
\*     G . . R
Residue4x3 ==
    GridNew(4, 3, [c \in {"Red", "Green", "Blue"} |->
        IF c = "Red" THEN <<<<0, 1>>, <<3, 2>>>>
        ELSE IF c = "Green" THEN <<<<3, 0>>, <<0, 2>>>>
        ELSE <<<<2, 0>>, <<3, 1>>>>])

\* A 4x3 grid on which the search for Green runs below a path trial of Red:
\*     . . . .
\*     . R G R
\*     . . . G
Nested4x3 ==
    GridNew(4, 3, [c \in {"Red", "Green"} |->
        IF c = "Red" THEN <<<<1, 1>>, <<3, 1>>>> ELSE <<<<2, 1>>, <<3, 2>>>>])

\* The grids, cells and files of the calls made on a Grid directly.
Palette == {"Red", "Green"}

GridDims == {d \in (0..GridMaxCells) \X (0..GridMaxCells) : d[1] * d[2] <= GridMaxCells}

CellValues == {Empty} \cup {Endpoint(c, FALSE) : c \in Palette} \cup {Path(c, FALSE) : c \in Palette}

\* A period, two colour letters, a letter that names no colour, and a
\* character that is neither a letter nor a period.
Chars == {".", "R", "G", "x", "#"}

LinesUpTo(w) == UNION {[1..n -> Chars] : n \in 0..w}

Texts == UNION {[1..d[2] -> LinesUpTo(d[1])] : d \in GridDims}

\* ------------------------------------------------------------------- state
\* -------------------------------------------------------------------- app.rs
\* The puzzles behind App::puzzle_files, in the order of the list.
PuzzleFiles == <<Single3x3, Border3x3, Crossing2x2>>

\* App::new.  Instants and durations are "set" or absent; current_message and
\* solving_thread are never written after construction and are left out.
App_new ==
    [state |-> "PuzzleSelection",
     selected_puzzle_index |-> 0,
     current_grid |-> NoneOpt,
     solved_grid |-> NoneOpt,
     solving_grid |-> NoneOpt,
     solve_duration |-> NoneOpt,
     solve_result |-> NoneOpt,
     should_quit |-> FALSE,
     steps_count |-> 0,
     solve_start_time |-> NoneOpt]

next_puzzle(a) ==
    IF a.selected_puzzle_index < Len(PuzzleFiles) - 1
    THEN [a EXCEPT !.selected_puzzle_index = @ + 1]
    ELSE a

previous_puzzle(a) ==
    IF a.selected_puzzle_index > 0
    THEN [a EXCEPT !.selected_puzzle_index = @ - 1]
    ELSE a

load_puzzle(a) ==
    [a EXCEPT !.current_grid = Some(PuzzleFiles[a.selected_puzzle_index + 1]),
              !.solved_grid = NoneOpt,
              !.solving_grid = NoneOpt,
              !.solve_duration = NoneOpt,
              !.solve_result = NoneOpt,
              !.steps_count = 0,
              !.solve_start_time = NoneOpt]

solve_puzzle(a) ==
    IF a.current_grid # NoneOpt
    THEN [a EXCEPT !.state = "Solving",
                   !.solving_grid = a.current_grid,
                   !.steps_count = 0,
                   !.solve_start_time = Some("now")]
    ELSE a

\* step_solve when the endpoint map of brute_force iterates in `order`.
step_solve(a, order) ==
    IF a.solving_grid # NoneOpt
    THEN LET solve_res == brute_force(a.solving_grid[1], order)
         IN [a EXCEPT !.steps_count = @ + 1,
                      !.solved_grid = Some(solve_res.grid),
                      !.solve_duration = IF a.solve_start_time = NoneOpt THEN NoneOpt
                                         ELSE Some("elapsed"),
                      !.solve_result = Some(IF solve_res.result = "Solved"
                                            THEN "Solved!" ELSE "Impossible"),
                      !.state = "ViewingSolution"]
    ELSE a

back_to_selection(a) ==
    [a EXCEPT !.state = "PuzzleSelection",
              !.current_grid = NoneOpt,
              !.solved_grid = NoneOpt,
              !.solving_grid = NoneOpt,
              !.solve_duration = NoneOpt,
              !.solve_result = NoneOpt,
              !.steps_count = 0,
              !.solve_start_time = NoneOpt]

quit(a) == [a EXCEPT !.should_quit = TRUE]

\* -------------------------------------------------------------------- tui.rs
KeyCodes == {"q", "Esc", "Down", "j", "Up", "k", "Enter", "b", "Backspace", "x"}

\* The terminal events: key presses, a key release, and an event that is no key.
Events ==
    {[type |-> "Key", code |-> code, kind |-> "Press"] : code \in KeyCodes}
    \cup {[type |-> "Key", code |-> "q", kind |-> "Release"],
          [type |-> "Resize", code |-> "", kind |-> ""]}

handle_key_event(a, key) ==
    IF a.state = "PuzzleSelection"
    THEN IF key.code \in {"q", "Esc"} THEN quit(a)
         ELSE IF key.code \in {"Down", "j"} THEN next_puzzle(a)
         ELSE IF key.code \in {"Up", "k"} THEN previous_puzzle(a)
         ELSE IF key.code = "Enter" THEN solve_puzzle(load_puzzle(a))
         ELSE a
    ELSE IF a.state = "Solving" THEN a
    ELSE IF key.code \in {"q", "Esc"} THEN quit(a)
         ELSE IF key.code \in {"b", "Backspace"} THEN back_to_selection(a)
         ELSE a

\* `if let Event::Key(key) = event::read()? { if key.kind == Press { .. } }`
on_event(a, event) ==
    IF event.type = "Key" /\ event.kind = "Press" THEN handle_key_event(a, event) ELSE a

VARIABLES
    input,          \* the grid handed to the solvers
    todo,           \* the solvers still to run on it, in order
    bf_grid,        \* brute_force: `grid`, the caller's clone of the input
    bf_endpoints,   \* brute_force: `endpoints`
    bf_order,       \* brute_force: the iteration order of `endpoints` (and `pairs`)
    bf_pc,          \* brute_force: "idle", "call", "try", "ret", "done"
    bf_index,       \* backtrack: `index` of the call being entered
    bf_stack,       \* backtrack: the frames inside their `for path in all_paths`,
                    \* each with the cells it painted for its current path
    bf_ret,         \* backtrack: the value just returned
    bf_result,      \* brute_force: "Solved" or "Impossible"
    bf_steps,       \* brute_force_with_callback: `step_count`
    cb_refused,     \* the step callback: it has answered false
    as_pc,          \* solve_astar: "idle", "pop", "forced", "done"
    as_porder,      \* solve_astar: the iteration order of every state's `paths`
    as_open,        \* solve_astar: `open`, in insertion order
    as_visited,     \* solve_astar: `visited`
    as_handled,     \* solve_astar: the grids of the states popped so far
    as_expanded,    \* solve_astar: the grids whose successors were pushed so far
    as_state,       \* solve_astar: `state`, the state popped last
    as_result,      \* solve_astar: the Option<Grid> returned
    sat_pc,         \* solve_sat: "idle", "done"
    sat_model,      \* solve_sat: the model the engine found, if any
    sat_result,     \* solve_sat: the Option<Grid> returned
    api_pc,         \* a direct caller of Grid: "start", "ready", "returned", "panicked"
    api_grid,       \* the Grid the direct caller holds
    api_call,       \* the call made last, with its arguments
    api_ret,        \* what that call returned
    fg_pc,          \* fill_guaranteed: "idle", "collect", "apply", "done"
    fg_grid,        \* fill_guaranteed: `self`
    fg_endpoints,   \* fill_guaranteed: `endpoints`
    fg_order,       \* fill_guaranteed: the iteration order of `endpoints`
    fg_updates,     \* fill_guaranteed: `updates`, the part not applied yet
    fg_solved_colours,  \* fill_guaranteed: `solved_colours` of the pass
    app,            \* the TUI: the App
    run_pc,         \* tui::run: "draw", "step", "poll", "read", "check", "exited", "failed"
    key_events      \* the terminal events not read yet, each with the state of
                    \* the App at the time it arrived

vars == <<input, todo, bf_grid, bf_endpoints, bf_order, bf_pc, bf_index,
          bf_stack, bf_ret, bf_result, bf_steps, cb_refused, as_pc, as_porder, as_open, as_visited,
          as_handled, as_expanded, as_state, as_result, sat_pc, sat_model, sat_result,
          api_pc, api_grid, api_call, api_ret,
          fg_pc, fg_grid, fg_endpoints, fg_order, fg_updates, fg_solved_colours,
          app, run_pc, key_events>>

app_vars == <<app, run_pc, key_events>>

fg_vars == <<fg_pc, fg_grid, fg_endpoints, fg_order, fg_updates, fg_solved_colours>>

api_vars == <<api_pc, api_grid, api_call, api_ret>>

sat_vars == <<sat_pc, sat_model, sat_result>>

as_vars == <<as_pc, as_porder, as_open, as_visited, as_handled, as_expanded,
             as_state, as_result>>

bf_vars == <<bf_grid, bf_endpoints, bf_order, bf_pc, bf_index, bf_stack,
             bf_ret, bf_result, bf_steps, cb_refused>>

None == "none"

\* The solver at the head of `todo` is the one running.
Running(solver) == todo # <<>> /\ Head(todo) = solver

InitFrom(grids, solvers) ==
    /\ input \in grids
    /\ todo = solvers
    /\ bf_grid = input
    /\ bf_endpoints = <<>>
    /\ bf_order = <<>>
    /\ bf_pc = "idle"
    /\ bf_index = 0
    /\ bf_stack = <<>>
    /\ bf_ret = None
    /\ bf_result = None
    /\ bf_steps = 0
    /\ cb_refused = FALSE
    /\ as_pc = "idle"
    /\ as_porder = <<>>
    /\ as_open = <<>>
    /\ as_visited = {}
    /\ as_handled = {}
    /\ as_expanded = {}
    /\ as_state = NoneOpt
    /\ as_result = NoneOpt
    /\ sat_pc = "idle"
    /\ sat_model = NoneOpt
    /\ sat_result = NoneOpt
    /\ api_pc = "start"
    /\ api_grid = GridNew(0, 0, <<>>)
    /\ api_call = [op |-> "none"]
    /\ api_ret = None
    /\ fg_pc = "idle"
    /\ fg_grid = input
    /\ fg_endpoints = <<>>
    /\ fg_order = <<>>
    /\ fg_updates = <<>>
    /\ fg_solved_colours = <<>>
    /\ app = App_new
    /\ run_pc = "draw"
    /\ key_events = <<>>

InitOn(solvers) == InitFrom(Inputs, solvers)

\* ------------------------------------------------- backtracking.rs, stepwise
\* The caller pre-fills its grid: grid.fill_guaranteed(&grid.get_endpoints()).
Prefill ==
    /\ Running("fill")
    /\ LET endpoints == get_endpoints(bf_grid)
       IN /\ endpoints # MalformedEndpoints
          /\ \E order \in IterationOrders(DOMAIN endpoints) :
                bf_grid' = fill_guaranteed(bf_grid, endpoints, order)
    /\ todo' = Tail(todo)
    /\ UNCHANGED <<app_vars, input, bf_endpoints, bf_order, bf_pc, bf_index, bf_stack, bf_ret,
                   bf_result, bf_steps, cb_refused, as_vars, sat_vars, api_vars, fg_vars>>

\* brute_force up to the first call of backtrack, on the caller's grid: the
\* clone of the input, or what an earlier call left in it.
BF_Start ==
    /\ Running("bf") /\ bf_pc \in {"idle", "done"}
    /\ LET endpoints == get_endpoints(bf_grid)
       IN /\ endpoints # MalformedEndpoints
          /\ \E order \in IterationOrders(DOMAIN endpoints) :
                /\ bf_order' = order
                /\ bf_endpoints' = endpoints
                /\ bf_grid' = fill_guaranteed(bf_grid, endpoints, order)
    /\ bf_pc' = "call"
    /\ bf_index' = 0
    /\ bf_result' = None
    /\ UNCHANGED <<app_vars, input, todo, bf_stack, bf_ret, bf_steps, cb_refused, as_vars, sat_vars, api_vars, fg_vars>>

\* backtrack from its entry to its first path trial or its return.
BF_Enter ==
    /\ Running("bf") /\ bf_pc = "call"
    /\ IF bf_index = Len(bf_order)
       THEN /\ bf_ret' = is_solved(bf_grid, bf_endpoints)
            /\ bf_pc' = "ret"
            /\ UNCHANGED <<bf_index, bf_stack>>
       ELSE LET colour == bf_order[bf_index + 1]
                start == bf_endpoints[colour][1]
                end == bf_endpoints[colour][2]
                all_paths == find_paths(bf_grid, start, end, colour, {}, <<>>)
            IN IF connected(bf_grid, colour, start, end)
               THEN /\ bf_index' = bf_index + 1
                    /\ UNCHANGED <<bf_pc, bf_stack, bf_ret>>
               ELSE IF all_paths = <<>>
               THEN /\ bf_ret' = FALSE
                    /\ bf_pc' = "ret"
                    /\ UNCHANGED <<bf_index, bf_stack>>
               ELSE /\ bf_stack' = Append(bf_stack,
                            [index |-> bf_index, colour |-> colour,
                             all_paths |-> all_paths, k |-> 1, painted |-> {}])
                    /\ bf_pc' = "try"
                    /\ UNCHANGED <<bf_index, bf_ret>>
    /\ UNCHANGED <<app_vars, input, todo, bf_grid, bf_endpoints, bf_order, bf_result, bf_steps, cb_refused, as_vars, sat_vars, api_vars, fg_vars>>

\* One trial: paint the path, fill_guaranteed, call backtrack(index + 1).
BF_Try ==
    /\ Running("bf") /\ bf_pc = "try"
    /\ LET frame == bf_stack[Len(bf_stack)]
           path == frame.all_paths[frame.k]
       IN /\ bf_grid' = fill_guaranteed(paint_path(bf_grid, path, frame.colour),
                                        bf_endpoints, bf_order)
          /\ bf_stack' = [bf_stack EXCEPT ![Len(bf_stack)].painted =
                             {p \in Range(path) : get(bf_grid, p).kind = "Empty"}]
          /\ bf_index' = frame.index + 1
    /\ bf_pc' = "call"
    /\ UNCHANGED <<app_vars, input, todo, bf_endpoints, bf_order, bf_ret, bf_result, bf_steps, cb_refused, as_vars, sat_vars, api_vars, fg_vars>>

\* The callee returned into the frame on top of the stack.
BF_Return ==
    /\ Running("bf") /\ bf_pc = "ret" /\ bf_stack # <<>>
    /\ LET n == Len(bf_stack)
           frame == bf_stack[n]
           path == frame.all_paths[frame.k]
       IN IF bf_ret
          THEN /\ bf_stack' = SubSeq(bf_stack, 1, n - 1)
               /\ UNCHANGED <<bf_grid, bf_pc, bf_ret>>
          ELSE /\ bf_grid' = unpaint_path(bf_grid, path, frame.colour)
               /\ IF frame.k < Len(frame.all_paths)
                  THEN /\ bf_stack' = [bf_stack EXCEPT ![n].k = frame.k + 1]
                       /\ bf_pc' = "try"
                       /\ UNCHANGED bf_ret
                  ELSE /\ bf_stack' = SubSeq(bf_stack, 1, n - 1)
                       /\ UNCHANGED <<bf_pc, bf_ret>>
    /\ UNCHANGED <<app_vars, input, todo, bf_endpoints, bf_order, bf_index, bf_result, bf_steps, cb_refused, as_vars, sat_vars, api_vars, fg_vars>>

\* The outermost backtrack returned to brute_force.
BF_Finish ==
    /\ Running("bf") /\ bf_pc = "ret" /\ bf_stack = <<>>
    /\ bf_result' = IF bf_ret THEN "Solved" ELSE "Impossible"
    /\ bf_pc' = "done"
    /\ todo' = Tail(todo)
    /\ UNCHANGED <<app_vars, input, bf_grid, bf_endpoints, bf_order, bf_index, bf_stack, bf_ret, bf_steps, cb_refused, as_vars, sat_vars, api_vars, fg_vars>>

NextBF == BF_Start \/ BF_Enter \/ BF_Try \/ BF_Return \/ BF_Finish

SpecBF == InitOn(<<"bf">>) /\ [][NextBF]_vars

\* brute_force on the inputs and on the two 4x3 scenarios of the search.
SpecScenarios ==
    InitFrom(Inputs \cup {TwoWays4x3, Residue4x3}, <<"bf">>) /\ [][NextBF]_vars

\* ------------------------------ backtracking.rs, brute_force_with_callback
\* brute_force_with_callback up to the first call of backtrack.
BFC_Start ==
    /\ Running("bfc") /\ bf_pc = "idle"
    /\ LET endpoints == get_endpoints(bf_grid)
       IN /\ endpoints # MalformedEndpoints
          /\ \E order \in IterationOrders(DOMAIN endpoints) :
                /\ bf_order' = order
                /\ bf_endpoints' = endpoints
                /\ bf_grid' = fill_guaranteed(bf_grid, endpoints, order)
    /\ bf_pc' = "call"
    /\ bf_index' = 0
    /\ bf_steps' = 0
    /\ cb_refused' = FALSE
    /\ UNCHANGED <<app_vars, input, todo, bf_stack, bf_ret, bf_result, as_vars, sat_vars, api_vars, fg_vars>>

\* backtrack from its entry to its first path trial or its return.
BFC_Enter ==
    /\ Running("bfc") /\ bf_pc = "call"
    /\ IF bf_index = Len(bf_order)
       THEN /\ bf_ret' = is_solved(bf_grid, bf_endpoints)
            /\ bf_pc' = "ret"
            /\ UNCHANGED <<bf_index, bf_stack>>
       ELSE LET colour == bf_order[bf_index + 1]
                start == bf_endpoints[colour][1]
                end == bf_endpoints[colour][2]
                all_paths == find_paths(bf_grid, start, end, colour, {}, <<>>)
            IN IF connected(bf_grid, colour, start, end)
               THEN /\ bf_index' = bf_index + 1
                    /\ UNCHANGED <<bf_pc, bf_stack, bf_ret>>
               ELSE IF all_paths = <<>>
               THEN /\ bf_ret' = FALSE
                    /\ bf_pc' = "ret"
                    /\ UNCHANGED <<bf_index, bf_stack>>
               ELSE /\ bf_stack' = Append(bf_stack,
                            [index |-> bf_index, colour |-> colour,
                             all_paths |-> all_paths, k |-> 1])
                    /\ bf_pc' = "try"
                    /\ UNCHANGED <<bf_index, bf_ret>>
    /\ UNCHANGED <<app_vars, input, todo, bf_grid, bf_endpoints, bf_order, bf_result, bf_steps,
                   cb_refused, as_vars, sat_vars, api_vars, fg_vars>>

\* One trial: count the step, paint the path, fill_guaranteed, ask the
\* callback; it answers as it likes.
BFC_Try ==
    /\ Running("bfc") /\ bf_pc = "try"
    /\ LET n == Len(bf_stack)
           frame == bf_stack[n]
           path == frame.all_paths[frame.k]
       IN /\ bf_grid' = fill_guaranteed(paint_path(bf_grid, path, frame.colour),
                                        bf_endpoints, bf_order)
          /\ bf_steps' = bf_steps + 1
          /\ \E should_continue \in BOOLEAN :
                /\ cb_refused' = (cb_refused \/ ~should_continue)
                /\ IF should_continue
                   THEN /\ bf_index' = frame.index + 1
                        /\ bf_pc' = "call"
                        /\ UNCHANGED <<bf_stack, bf_ret>>
                   ELSE /\ bf_stack' = SubSeq(bf_stack, 1, n - 1)
                        /\ bf_ret' = FALSE
                        /\ bf_pc' = "ret"
                        /\ UNCHANGED bf_index
    /\ UNCHANGED <<app_vars, input, todo, bf_endpoints, bf_order, bf_result, as_vars, sat_vars, api_vars, fg_vars>>

\* The callee returned into the frame on top of the stack.
BFC_Return ==
    /\ Running("bfc") /\ bf_pc = "ret" /\ bf_stack # <<>>
    /\ LET n == Len(bf_stack)
           frame == bf_stack[n]
           path == frame.all_paths[frame.k]
       IN IF bf_ret
          THEN /\ bf_stack' = SubSeq(bf_stack, 1, n - 1)
               /\ UNCHANGED <<bf_grid, bf_pc, bf_ret, bf_steps, cb_refused>>
          ELSE /\ bf_steps' = bf_steps + 1
               /\ bf_grid' = unpaint_path(bf_grid, path, frame.colour)
               /\ \E should_continue \in BOOLEAN :
                     /\ cb_refused' = (cb_refused \/ ~should_continue)
                     /\ IF should_continue /\ frame.k < Len(frame.all_paths)
                        THEN /\ bf_stack' = [bf_stack EXCEPT ![n].k = frame.k + 1]
                             /\ bf_pc' = "try"
                             /\ UNCHANGED bf_ret
                        ELSE /\ bf_stack' = SubSeq(bf_stack, 1, n - 1)
                             /\ UNCHANGED <<bf_pc, bf_ret>>
    /\ UNCHANGED <<app_vars, input, todo, bf_endpoints, bf_order, bf_index, bf_result,
                   as_vars, sat_vars, api_vars, fg_vars>>

\* The outermost backtrack returned to brute_force_with_callback.
BFC_Finish ==
    /\ Running("bfc") /\ bf_pc = "ret" /\ bf_stack = <<>>
    /\ bf_result' = IF bf_ret THEN "Solved" ELSE "Impossible"
    /\ bf_pc' = "done"
    /\ todo' = Tail(todo)
    /\ UNCHANGED <<app_vars, input, bf_grid, bf_endpoints, bf_order, bf_index, bf_stack, bf_ret,
                   bf_steps, cb_refused, as_vars, sat_vars, api_vars, fg_vars>>

NextBFC == BFC_Start \/ BFC_Enter \/ BFC_Try \/ BFC_Return \/ BFC_Finish

SpecBFC == InitFrom(Inputs \cup {Nested4x3}, <<"bfc">>) /\ [][NextBFC]_vars

\* ------------------------------------------------------- astar.rs, stepwise
\* solve_astar up to its main loop.
AS_Start ==
    /\ Running("astar") /\ as_pc = "idle"
    /\ LET endpoints == get_endpoints(input)
       IN /\ endpoints # MalformedEndpoints
          /\ \E porder \in IterationOrders(DOMAIN endpoints) :
                /\ as_porder' = porder
                /\ as_open' = <<[grid |-> input,
                                 endpoints |-> endpoints,
                                 paths |-> [c \in DOMAIN endpoints |-> <<endpoints[c][1]>>],
                                 cost |-> 0,
                                 estimate |-> heuristic(input)]>>
    /\ as_visited' = {}
    /\ as_handled' = {}
    /\ as_expanded' = {}
    /\ as_pc' = "pop"
    /\ UNCHANGED <<app_vars, input, todo, bf_vars, as_state, as_result, sat_vars, api_vars, fg_vars>>

\* open.pop() and the tests made before the forced-move loop.  BinaryHeap::pop
\* gives a greatest element of `Ord for State`: any state of least estimate.
AS_Pop ==
    /\ as_pc = "pop" /\ as_open # <<>>
    /\ \E i \in 1..Len(as_open) :
          /\ \A j \in 1..Len(as_open) : as_open[j].estimate >= as_open[i].estimate
          /\ LET state == as_open[i]
                 hash == grid_hash(state.grid)
             IN /\ as_open' = SubSeq(as_open, 1, i - 1) \o SubSeq(as_open, i + 1, Len(as_open))
                /\ as_state' = Some(state)
                /\ as_visited' = as_visited \cup {hash}
                /\ as_handled' = as_handled \cup {state.grid}
                /\ as_pc' = IF hash \in as_visited THEN "pop"
                            ELSE IF dead_end(state.grid)
                                    \/ stranded(state.grid, state.endpoints, state.paths)
                            THEN "pop"
                            ELSE "forced"
    /\ UNCHANGED <<app_vars, input, todo, bf_vars, as_porder, as_expanded, as_result, sat_vars, api_vars, fg_vars>>

\* One iteration of the forced-move loop that finds a forced move.
AS_Forced ==
    /\ as_pc = "forced"
    /\ LET state == as_state[1]
           forced == get_forced_moves(state.grid, state.endpoints, state.paths, as_porder)
       IN /\ forced # NoneOpt
          /\ as_state' = Some(forced_state(state, forced[1][1], forced[1][2]))
    /\ UNCHANGED <<app_vars, input, todo, bf_vars, as_pc, as_porder, as_open, as_visited, as_handled, as_expanded, as_result, sat_vars, api_vars, fg_vars>>

\* The forced-move loop breaks and the state is solved: return Some(state.grid).
AS_Solved ==
    /\ as_pc = "forced"
    /\ LET state == as_state[1]
       IN /\ get_forced_moves(state.grid, state.endpoints, state.paths, as_porder) = NoneOpt
          /\ is_solved(state.grid, state.endpoints)
          /\ as_result' = Some(state.grid)
    /\ as_pc' = "done"
    /\ todo' = Tail(todo)
    /\ UNCHANGED <<app_vars, input, bf_vars, as_porder, as_open, as_visited, as_handled, as_expanded, as_state, sat_vars, api_vars, fg_vars>>

\* The forced-move loop breaks and the state is not solved: push its successors.
AS_Expand ==
    /\ as_pc = "forced"
    /\ LET state == as_state[1]
           active == get_active_colour(state.grid, state.endpoints, state.paths, as_porder)
       IN /\ get_forced_moves(state.grid, state.endpoints, state.paths, as_porder) = NoneOpt
          /\ ~ is_solved(state.grid, state.endpoints)
          /\ as_open' = IF active = NoneOpt THEN as_open
                        ELSE as_open \o successors(state, active[1])
          /\ as_expanded' = IF active = NoneOpt THEN as_expanded
                            ELSE as_expanded \cup {state.grid}
    /\ as_pc' = "pop"
    /\ UNCHANGED <<app_vars, input, todo, bf_vars, as_porder, as_visited, as_handled, as_state, as_result, sat_vars, api_vars, fg_vars>>

\* The open set is exhausted: return None.
AS_Exhausted ==
    /\ as_pc = "pop" /\ as_open = <<>>
    /\ as_result' = NoneOpt
    /\ as_pc' = "done"
    /\ todo' = Tail(todo)
    /\ UNCHANGED <<app_vars, input, bf_vars, as_porder, as_open, as_visited, as_handled, as_expanded, as_state, sat_vars, api_vars, fg_vars>>

NextAstar == AS_Start \/ AS_Pop \/ AS_Forced \/ AS_Solved \/ AS_Expand \/ AS_Exhausted

SpecAstar == InitOn(<<"astar">>) /\ [][NextAstar]_vars

\* solve_astar is sequential code: a step that can be taken is taken.
SpecAstarLive == InitOn(<<"astar">>) /\ [][NextAstar]_vars /\ WF_vars(NextAstar)

\* solve_astar on the inputs and on the 3x3 grid with the adjacent pair.
SpecPruning == InitFrom(Inputs \cup {Adjacent3x3}, <<"astar">>) /\ [][NextAstar]_vars

\* --------------------------------------------------------------------- sat.rs
\* solve_sat when the engine answers satisfiable: it may hand back any model.
\* The order of `colours` only numbers the variables.
SAT_Solve ==
    /\ Running("sat") /\ sat_pc = "idle"
    /\ LET endpoints == get_endpoints(input)
       IN /\ endpoints # MalformedEndpoints
          /\ \E colours \in IterationOrders(DOMAIN endpoints) :
             \E model \in models(input, colours, endpoints) :
                /\ sat_model' = Some(model)
                /\ sat_result' = decode(input, colours,
                                        true_vars_of(input, colours, model.col, model.dir))
    /\ sat_pc' = "done"
    /\ todo' = Tail(todo)
    /\ UNCHANGED <<app_vars, input, bf_vars, as_vars, api_vars, fg_vars>>

\* solve_sat when the engine answers unsatisfiable: None.
SAT_Unsat ==
    /\ Running("sat") /\ sat_pc = "idle"
    /\ LET endpoints == get_endpoints(input)
       IN /\ endpoints # MalformedEndpoints
          /\ \A colours \in IterationOrders(DOMAIN endpoints) :
                model_colourings(input, colours, endpoints) = {}
    /\ sat_model' = NoneOpt
    /\ sat_result' = NoneOpt
    /\ sat_pc' = "done"
    /\ todo' = Tail(todo)
    /\ UNCHANGED <<app_vars, input, bf_vars, as_vars, api_vars, fg_vars>>

NextSat == SAT_Solve \/ SAT_Unsat

\* solve_sat when the engine fails: solve() is an Err, taken as false.
SAT_Error ==
    /\ Running("sat") /\ sat_pc = "idle"
    /\ get_endpoints(input) # MalformedEndpoints
    /\ sat_model' = NoneOpt
    /\ sat_result' = NoneOpt
    /\ sat_pc' = "done"
    /\ todo' = Tail(todo)
    /\ UNCHANGED <<app_vars, input, bf_vars, as_vars, api_vars, fg_vars>>

NextSatEngine == NextSat \/ SAT_Error

\* solve_sat with an engine that can also fail.
SpecSatEngine == InitOn(<<"sat">>) /\ [][NextSatEngine]_vars

SpecSat == InitOn(<<"sat">>) /\ [][NextSat]_vars

\* ------------------------------------------------------------------- main.rs
\* The driver: brute_force, solve_astar and solve_sat in turn, each on a clone
\* of the same grid.
Next == NextBF \/ NextAstar \/ NextSat

Spec == InitOn(<<"bf", "astar", "sat">>) /\ [][Next]_vars

\* The two search solvers on one input, each on its own clone of it.
NextSearch == NextBF \/ NextAstar

SpecSearch == InitOn(<<"bf", "astar">>) /\ [][NextSearch]_vars

\* main.rs: every solver is called twice, first under the timer; the two
\* brute_force calls work on the same grid, the others on clones of the input.
\* A second run of solve_astar or solve_sat starts from the same input and
\* adds no state of its own.
SpecMain == InitOn(<<"bf", "bf", "astar", "sat">>) /\ [][Next]_vars

\* fill_guaranteed as a preprocessing of its own, then brute_force.
NextPrefill == Prefill \/ NextBF

SpecPrefill == InitOn(<<"fill", "bf">>) /\ [][NextPrefill]_vars

\* --------------------------------------------------- board.rs, called directly
\* The value of a call that returns ().
Unit == [unit |-> "()"]

\* Grid::new.
Grid_New ==
    /\ api_pc = "start"
    /\ \E d \in GridDims : \E cs \in SUBSET Palette :
       \E endpoints \in EndpointMaps(d[1], d[2], cs) :
          /\ api_grid' = GridNew(d[1], d[2], endpoints)
          /\ api_call' = [op |-> "new", endpoints |-> endpoints]
          /\ api_ret' = GridNew(d[1], d[2], endpoints)
    /\ api_pc' = "returned"
    /\ UNCHANGED <<app_vars, input, todo, bf_vars, as_vars, sat_vars, fg_vars>>

\* grid_from_txt on a file with the lines `text`.
Grid_Load ==
    /\ api_pc = "start"
    /\ \E text \in Texts :
          /\ api_call' = [op |-> "load", text |-> text]
          /\ api_ret' = grid_from_txt(text)
          /\ IF grid_from_txt(text) \in {MalformedEndpoints, InvalidChar}
             THEN api_pc' = "panicked" /\ UNCHANGED api_grid
             ELSE api_pc' = "returned" /\ api_grid' = grid_from_txt(text)
    /\ UNCHANGED <<app_vars, input, todo, bf_vars, as_vars, sat_vars, fg_vars>>

\* The caller takes the result and goes on to its next call.
Caller_Continue ==
    /\ api_pc = "returned"
    /\ api_pc' = "ready"
    /\ api_call' = [op |-> "none"]
    /\ api_ret' = None
    /\ UNCHANGED <<app_vars, input, todo, bf_vars, as_vars, sat_vars, fg_vars, api_grid>>

\* Grid::set.
Grid_Set ==
    /\ api_pc = "ready"
    /\ \E point \in DOMAIN api_grid.cells : \E cell \in CellValues :
          /\ api_grid' = set(api_grid, point, cell)
          /\ api_call' = [op |-> "set", point |-> point, cell |-> cell,
                          before |-> get(api_grid, point)]
    /\ api_ret' = Unit
    /\ api_pc' = "returned"
    /\ UNCHANGED <<app_vars, input, todo, bf_vars, as_vars, sat_vars, fg_vars>>

\* Grid::get_endpoints.
Grid_GetEndpoints ==
    /\ api_pc = "ready"
    /\ api_call' = [op |-> "get_endpoints"]
    /\ api_ret' = get_endpoints(api_grid)
    /\ api_pc' = IF get_endpoints(api_grid) = MalformedEndpoints THEN "panicked" ELSE "returned"
    /\ UNCHANGED <<app_vars, input, todo, bf_vars, as_vars, sat_vars, fg_vars, api_grid>>

\* Grid::connected.
Grid_Connected ==
    /\ api_pc = "ready"
    /\ \E colour \in Palette : \E start, end \in DOMAIN api_grid.cells :
          /\ api_call' = [op |-> "connected", colour |-> colour, start |-> start, end |-> end]
          /\ api_ret' = connected(api_grid, colour, start, end)
    /\ api_pc' = "returned"
    /\ UNCHANGED <<app_vars, input, todo, bf_vars, as_vars, sat_vars, fg_vars, api_grid>>

\* Grid::is_solved, on an endpoint map of the caller's.
Grid_IsSolved ==
    /\ api_pc = "ready"
    /\ \E cs \in SUBSET Palette :
       \E endpoints \in EndpointMaps(api_grid.width, api_grid.height, cs) :
          /\ api_call' = [op |-> "is_solved", endpoints |-> endpoints]
          /\ api_ret' = is_solved(api_grid, endpoints)
    /\ api_pc' = "returned"
    /\ UNCHANGED <<app_vars, input, todo, bf_vars, as_vars, sat_vars, fg_vars, api_grid>>

NextGrid ==
    \/ Grid_New \/ Grid_Load \/ Caller_Continue
    \/ Grid_Set \/ Grid_GetEndpoints \/ Grid_Connected \/ Grid_IsSolved

\* No solver runs; `input` is not looked at.
SpecGrid == InitFrom({Border3x3}, <<>>) /\ [][NextGrid]_vars

\* Any one of the four solvers, run on its own.
NextAny == NextBF \/ NextBFC \/ NextAstar \/ NextSat

SpecAny ==
    /\ \E solver \in {"bf", "bfc", "astar", "sat"} : InitOn(<<solver>>)
    /\ [][NextAny]_vars

\* ------------------------------------------ board.rs, fill_guaranteed stepwise
\* fill_guaranteed is called on the input with the endpoints found on it.
FG_Call ==
    /\ Running("fill_guaranteed") /\ fg_pc = "idle"
    /\ LET endpoints == get_endpoints(input)
       IN /\ endpoints # MalformedEndpoints
          /\ fg_endpoints' = endpoints
          /\ fg_order' \in IterationOrders(DOMAIN endpoints)
    /\ fg_grid' = input
    /\ fg_pc' = "collect"
    /\ UNCHANGED <<app_vars, input, todo, bf_vars, as_vars, sat_vars, api_vars,
                   fg_updates, fg_solved_colours>>

\* One pass of the loop up to the test of `updates`: the updates of every
\* colour are collected against the grid as it is; none means return.
FG_Collect ==
    /\ fg_pc = "collect"
    /\ LET per_colour == [i \in 1..Len(fg_order) |->
                             fill_updates(fg_grid, fg_endpoints, fg_order[i])]
           updates == Flatten(per_colour)
       IN /\ fg_updates' = updates
          /\ fg_solved_colours' = SelectSeq(fg_order,
                 LAMBDA c : fill_updates(fg_grid, fg_endpoints, c) # <<>>)
          /\ IF updates = <<>>
             THEN fg_pc' = "done" /\ todo' = Tail(todo)
             ELSE fg_pc' = "apply" /\ UNCHANGED todo
    /\ UNCHANGED <<app_vars, input, bf_vars, as_vars, sat_vars, api_vars,
                   fg_grid, fg_endpoints, fg_order>>

\* self.set(p, cell) for the next update of the pass.
FG_Set ==
    /\ fg_pc = "apply" /\ fg_updates # <<>>
    /\ fg_grid' = set(fg_grid, Head(fg_updates)[1], Head(fg_updates)[2])
    /\ fg_updates' = Tail(fg_updates)
    /\ UNCHANGED <<app_vars, input, todo, bf_vars, as_vars, sat_vars, api_vars,
                   fg_pc, fg_endpoints, fg_order, fg_solved_colours>>

\* The updates are applied: mark_solved for the colours of the pass, then
\* the next pass.
FG_Mark ==
    /\ fg_pc = "apply" /\ fg_updates = <<>>
    /\ fg_grid' = mark_all_solved(fg_grid, fg_solved_colours)
    /\ fg_pc' = "collect"
    /\ UNCHANGED <<app_vars, input, todo, bf_vars, as_vars, sat_vars, api_vars,
                   fg_endpoints, fg_order, fg_updates, fg_solved_colours>>

NextFill == FG_Call \/ FG_Collect \/ FG_Set \/ FG_Mark

SpecFill == InitOn(<<"fill_guaranteed">>) /\ [][NextFill]_vars

\* ------------------------------------------- the notions the claims speak in
\* The cells reachable from the cells S by 4-adjacent steps through cells of colour c.
RECURSIVE ReachFrom(_, _, _)
ReachFrom(grid, c, S) ==
    LET S2 == S \cup {n \in DOMAIN grid.cells :
                        /\ grid.cells[n].kind # "Empty" /\ grid.cells[n].colour = c
                        /\ \E q \in S : (n[1] - q[1]) * (n[1] - q[1])
                                        + (n[2] - q[2]) * (n[2] - q[2]) = 1}
    IN IF S2 = S THEN S ELSE ReachFrom(grid, c, S2)

EndpointCells(grid, c) ==
    {p \in DOMAIN grid.cells : grid.cells[p].kind = "Endpoint" /\ grid.cells[p].colour = c}

EndpointColours(grid) ==
    {grid.cells[p].colour : p \in {q \in DOMAIN grid.cells : grid.cells[q].kind = "Endpoint"}}

\* grid is a solution of the puzzle `puzzle`: no cell is Empty and the
\* endpoints of every colour of the puzzle are joined through that colour.
Solved(grid, puzzle) ==
    /\ \A p \in DOMAIN grid.cells : grid.cells[p].kind # "Empty"
    /\ \A c \in EndpointColours(puzzle) :
          \A a, b \in EndpointCells(puzzle, c) : b \in ReachFrom(grid, c, {a})

\* The ways of giving every Empty cell of grid a colour of the puzzle.
Completions(grid) ==
    LET free == {p \in DOMAIN grid.cells : grid.cells[p].kind = "Empty"}
    IN {[grid EXCEPT !.cells = [p \in DOMAIN grid.cells |->
            IF p \in free THEN [kind |-> "Path", colour |-> f[p], solved |-> FALSE]
            ELSE grid.cells[p]]] : f \in [free -> EndpointColours(grid)]}

HasCompletion(grid) == \E g \in Completions(grid) : Solved(g, grid)

\* The cell contents the specification knows: kind and colour.
Contents(grid) == [p \in DOMAIN grid.cells |-> <<grid.cells[p].kind, grid.cells[p].colour>>]

\* grid has the endpoints of the input, and no others.
Keeps(grid) ==
    \A p \in DOMAIN input.cells :
        /\ (input.cells[p].kind = "Endpoint") = (grid.cells[p].kind = "Endpoint")
        /\ input.cells[p].kind = "Endpoint" => grid.cells[p].colour = input.cells[p].colour

\* The error the specification has set raise on an Endpoint cell.
EndpointOverwrite == [error |-> "EndpointOverwrite"]

\* The cells of a file that hold the character ch.
CharCells(text, ch) ==
    {xy \in (0..GridMaxCells) \X (0..GridMaxCells) :
        /\ xy[2] < Len(text) /\ xy[1] < Len(text[xy[2] + 1])
        /\ text[xy[2] + 1][xy[1] + 1] = ch}

\* The simple paths from the last cell of `path` to `end` through border
\* cells that are Empty or of the colour, each prefixed by `path`.
RECURSIVE BorderPathsFrom(_, _, _, _)
BorderPathsFrom(grid, colour, end, path) ==
    IF last(path) = end THEN {path}
    ELSE UNION {BorderPathsFrom(grid, colour, end, Append(path, n)) :
                   n \in {n \in Range(neighbors(last(path), grid.width, grid.height)) :
                             /\ n \notin Range(path)
                             /\ on_border(n, grid.width, grid.height)
                             /\ \/ get(grid, n).kind = "Empty"
                                \/ HasColour(get(grid, n), colour)}}

\* The border paths of a colour between its two endpoints.
BorderPaths(grid, endpoints, colour) ==
    BorderPathsFrom(grid, colour, endpoints[colour][2], <<endpoints[colour][1]>>)

\* The cells Empty in `before` that hold a Path of the colour in `after`.
PaintedFor(before, after, colour) ==
    {p \in DOMAIN before.cells :
        get(before, p).kind = "Empty" /\ get(after, p).kind = "Path"
        /\ get(after, p).colour = colour}

\* The 4-connected region of Empty cells around the cells S.
RECURSIVE EmptyFlood(_, _)
EmptyFlood(grid, S) ==
    LET T == S \cup {n \in DOMAIN grid.cells :
                       /\ grid.cells[n].kind = "Empty"
                       /\ \E p \in S : n \in Range(neighbors(p, grid.width, grid.height))}
    IN IF T = S THEN S ELSE EmptyFlood(grid, T)

\* The empty regions of a grid.
EmptyRegions(grid) ==
    {EmptyFlood(grid, {p}) : p \in {q \in DOMAIN grid.cells : grid.cells[q].kind = "Empty"}}

\* A region is adjacent to a cell.
Touches(grid, region, p) == Range(neighbors(p, grid.width, grid.height)) \cap region # {}

\* The colours of a search state whose head has not reached the goal endpoint.
Unfinished(state) ==
    {c \in DOMAIN state.paths : last(state.paths[c]) # state.endpoints[c][2]}

\* Infeasibility (a): an unfinished colour, its head not next to its goal, has
\* no empty region adjacent to both its head and its goal.
StrandedColour(state) ==
    \E c \in Unfinished(state) :
       /\ state.endpoints[c][2]
             \notin Range(neighbors(last(state.paths[c]), state.grid.width, state.grid.height))
       /\ ~ \E region \in EmptyRegions(state.grid) :
               /\ Touches(state.grid, region, last(state.paths[c]))
               /\ Touches(state.grid, region, state.endpoints[c][2])

\* Infeasibility (b): an empty region is adjacent to no unfinished colour's
\* head or goal.
OrphanRegion(state) ==
    \E region \in EmptyRegions(state.grid) :
       \A c \in Unfinished(state) :
          /\ ~ Touches(state.grid, region, last(state.paths[c]))
          /\ ~ Touches(state.grid, region, state.endpoints[c][2])

\* -------------------------------------------------------------------- claims
\* C1: whenever brute_force returns Solved the grid it leaves has no Empty
\* cell and joins the two endpoints of every colour through cells of that
\* colour, and so does every grid solve_astar returns.
C1_ResultValidity ==
    /\ bf_pc = "done" /\ bf_result = "Solved" => Solved(bf_grid, input)
    /\ as_pc = "done" /\ as_result # NoneOpt => Solved(as_result[1], input)

\* Both solvers have returned a solution of an input that had Empty cells.
C1_Witness ==
    /\ bf_pc = "done" /\ bf_result = "Solved"
    /\ as_pc = "done" /\ as_result # NoneOpt
    /\ Cardinality({p \in DOMAIN input.cells : input.cells[p].kind = "Empty"}) >= 2

\* C2: whenever solve_sat returns a grid, whichever model the engine found,
\* the grid has no Empty cell and joins the two endpoints of every colour.
C2_SatValidity ==
    sat_pc = "done" /\ sat_result # NoneOpt => Solved(sat_result[1], input)

\* C3: in every grid a solver holds or returns, the endpoints are the cells
\* and colours of the input's endpoints.
C3_EndpointPreservation ==
    /\ Keeps(bf_grid)
    /\ \A i \in 1..Len(as_open) : Keeps(as_open[i].grid)
    /\ as_state # NoneOpt => Keeps(as_state[1].grid)
    /\ as_result # NoneOpt => Keeps(as_result[1])
    /\ sat_result # NoneOpt => Keeps(sat_result[1])

\* brute_force_with_callback is inside a path trial and has painted cells.
C3_Witness ==
    /\ Running("bfc") /\ bf_stack # <<>>
    /\ \E p \in DOMAIN input.cells :
          input.cells[p].kind = "Empty" /\ bf_grid.cells[p].kind = "Path"

\* C4: on an input that has a solution, brute_force returns Solved,
\* solve_astar and solve_sat return grids, and the three grids have equal
\* cell contents.
C4_SolversAgree ==
    todo = <<>> /\ bf_pc = "done" /\ as_pc = "done" /\ sat_pc = "done"
    /\ HasCompletion(input)
    => /\ bf_result = "Solved" /\ as_result # NoneOpt /\ sat_result # NoneOpt
       /\ Contents(bf_grid) = Contents(as_result[1])
       /\ Contents(bf_grid) = Contents(sat_result[1])

\* C5: on an input that has no solution, brute_force returns Impossible and
\* solve_astar and solve_sat return none.
C5_UnsolvableReported ==
    ~HasCompletion(input)
    => /\ bf_pc = "done" => bf_result = "Impossible"
       /\ as_pc = "done" => as_result = NoneOpt
       /\ sat_pc = "done" => sat_result = NoneOpt

\* C6: when the input has a solution, the grid fill_guaranteed makes of it
\* still has one, and brute_force on that grid returns Solved with a solution.
C6_PrefillSoundness ==
    HasCompletion(input) /\ ~Running("fill")
    => /\ bf_pc = "idle" => HasCompletion(bf_grid)
       /\ bf_pc = "done" => bf_result = "Solved" /\ Solved(bf_grid, input)

\* C7: after brute_force returns Impossible the grid is the input with
\* fill_guaranteed applied once.
C7_BacktrackPurity ==
    bf_pc = "done" /\ bf_result = "Impossible"
    => \E order \in IterationOrders(DOMAIN bf_endpoints) :
          Contents(bf_grid) = Contents(fill_guaranteed(input, bf_endpoints, order))

\* C8: set on an Endpoint cell fails with EndpointOverwrite and leaves the
\* grid as it was.
C8_SetRefusesEndpoint ==
    api_call.op = "set" /\ api_call.before.kind = "Endpoint"
    => /\ api_ret = EndpointOverwrite
       /\ get(api_grid, api_call.point) = api_call.before

\* C9: get_endpoints returns a mapping exactly when every colour on an
\* Endpoint cell is on two of them, and the mapping gives each colour those
\* two cells; otherwise it fails with MalformedEndpoints.  The loader returns
\* a grid exactly when every colour letter of the file occurs twice, with
\* the endpoints where the letters are; otherwise it fails with
\* MalformedEndpoints.
C9_EndpointDiscovery ==
    /\ api_call.op = "get_endpoints" =>
          IF \A c \in EndpointColours(api_grid) : Cardinality(EndpointCells(api_grid, c)) = 2
          THEN /\ api_pc = "returned"
               /\ DOMAIN api_ret = EndpointColours(api_grid)
               /\ \A c \in DOMAIN api_ret :
                     {api_ret[c][1], api_ret[c][2]} = EndpointCells(api_grid, c)
          ELSE api_pc = "panicked" /\ api_ret = MalformedEndpoints
    /\ api_call.op = "load" /\ CharCells(api_call.text, "x") = {} =>
          IF \A ch \in {"R", "G"} : Cardinality(CharCells(api_call.text, ch)) \in {0, 2}
          THEN /\ api_pc = "returned"
               /\ EndpointCells(api_ret, "Red") = CharCells(api_call.text, "R")
               /\ EndpointCells(api_ret, "Green") = CharCells(api_call.text, "G")
               /\ EndpointColours(api_ret) \subseteq {"Red", "Green"}
          ELSE api_pc = "panicked" /\ api_ret = MalformedEndpoints

\* get_endpoints has failed on a grid where one colour is on three Endpoint cells.
C9_Witness ==
    /\ api_call.op = "get_endpoints" /\ api_pc = "panicked"
    /\ \E c \in Palette : Cardinality(EndpointCells(api_grid, c)) = 3

\* C10: among the cells holding colour c, connected(c, a, b) holds exactly
\* when b is reachable from a by 4-adjacent steps through cells of colour c,
\* and it is reflexive, symmetric and transitive.
C10_ConnectedEquivalence ==
    api_call.op = "connected"
    /\ HasColour(get(api_grid, api_call.start), api_call.colour)
    /\ HasColour(get(api_grid, api_call.end), api_call.colour)
    => LET c == api_call.colour
           a == api_call.start
           b == api_call.end
       IN /\ api_ret = (b \in ReachFrom(api_grid, c, {a}))
          /\ a = b => api_ret
          /\ api_ret = connected(api_grid, c, b, a)
          /\ \A d \in DOMAIN api_grid.cells :
                HasColour(get(api_grid, d), c) /\ api_ret /\ connected(api_grid, c, b, d)
                => connected(api_grid, c, a, d)

\* connected has answered true for two cells of one colour joined only
\* through a third, on a grid that also holds the other colour.
C10_Witness ==
    /\ api_call.op = "connected" /\ api_ret = TRUE
    /\ api_call.start # api_call.end
    /\ api_call.end \notin Range(neighbors(api_call.start, api_grid.width, api_grid.height))
    /\ HasColour(get(api_grid, api_call.start), api_call.colour)
    /\ \E p \in DOMAIN api_grid.cells :
          get(api_grid, p).kind # "Empty" /\ get(api_grid, p).colour # api_call.colour

\* C11: is_solved(endpoints) is true exactly when no cell is Empty and, for
\* every colour of endpoints, the second endpoint is reachable from the first
\* by 4-adjacent steps through cells of that colour.
C11_IsSolvedIff ==
    api_call.op = "is_solved"
    => api_ret =
          (/\ \A p \in DOMAIN api_grid.cells : api_grid.cells[p].kind # "Empty"
           /\ \A c \in DOMAIN api_call.endpoints :
                 api_call.endpoints[c][2]
                    \in ReachFrom(api_grid, c, {api_call.endpoints[c][1]}))

\* is_solved has answered true on a grid filled by hand: the endpoints of
\* the map are Endpoint cells of the grid, joined by Path cells.
C11_Witness ==
    /\ api_call.op = "is_solved" /\ api_ret = TRUE
    /\ DOMAIN api_call.endpoints # {}
    /\ \A c \in DOMAIN api_call.endpoints :
          /\ EndpointCells(api_grid, c) = Range(api_call.endpoints[c])
          /\ api_call.endpoints[c][2]
                \notin Range(neighbors(api_call.endpoints[c][1], api_grid.width, api_grid.height))
    /\ \E p \in DOMAIN api_grid.cells : api_grid.cells[p].kind = "Path"

\* C12: in brute_force_with_callback, once the step callback has answered
\* false no cell is painted any more and the call returns Impossible,
\* whatever the callback answers afterwards.
C12_AbortIsFinal ==
    [][(Running("bfc") /\ cb_refused)
       => /\ \A p \in DOMAIN bf_grid.cells :
                bf_grid'.cells[p].kind = "Path" => bf_grid.cells[p].kind = "Path"
          /\ bf_pc' = "done" => bf_result' = "Impossible"]_vars

\* C13: brute_force is a function of its input grid: whatever the order in
\* which the endpoint map iterates, the result and the final cell contents
\* are those of the run just finished.
C13_OrderIndependence ==
    (Running("bf") = FALSE /\ bf_pc = "done")
    => \A order \in IterationOrders(DOMAIN bf_endpoints) :
          /\ brute_force(input, order).result = bf_result
          /\ Contents(brute_force(input, order).grid) = Contents(bf_grid)

\* C14: on the 3x3 grid with Red (0,0)-(2,2) and Green (2,0)-(0,2),
\* fill_guaranteed alone leaves a grid that satisfies is_solved.
C14_FillSolvesBorder3x3 ==
    (input = Border3x3 /\ todo = <<"bf">> /\ bf_pc = "idle")
    => is_solved(bf_grid, get_endpoints(input))

\* C14, as it holds: on that grid the two pairs cross, no filling of the
\* grid is solved, and fill_guaranteed changes no cell and leaves the grid
\* unsolved.
C14_FillLeavesBorder3x3 ==
    (input = Border3x3 /\ todo = <<"bf">> /\ bf_pc = "idle")
    => /\ bf_grid = input
       /\ ~is_solved(bf_grid, get_endpoints(input))
       /\ ~HasCompletion(input)

\* fill_guaranteed has returned on the 3x3 grid with the two crossing pairs.
C14_Witness ==
    /\ input = Border3x3 /\ todo = <<"bf">> /\ bf_pc = "idle"
    /\ DOMAIN get_endpoints(bf_grid) = {"Red", "Green"}

\* C15: on the row of five cells with Red at (0,0) and (4,0), solve_astar
\* pops one state only, that state becomes solved inside the forced-move loop,
\* and no successor is ever pushed onto open.
C15_ForcedChain ==
    (input = Line1x5 /\ as_pc # "idle")
    => /\ \A i \in 1..Len(as_open) : as_open[i].cost = 0 /\ as_open[i].grid = input
       /\ Cardinality(as_visited) <= 1
       /\ as_pc = "pop" => as_open # <<>>
       /\ as_pc = "done" => /\ as_result # NoneOpt
                            /\ is_solved(as_result[1], get_endpoints(input))
                            /\ as_state[1].cost = 0

\* solve_astar has returned the row with its three middle cells painted Red.
C15_Witness ==
    /\ input = Line1x5 /\ as_pc = "done" /\ as_result # NoneOpt
    /\ \A x \in 1..3 : get(as_result[1], <<x, 0>>) = Path("Red", FALSE)
    /\ as_open = <<>>

\* C16: fill_guaranteed paints for a colour only when both its endpoints are
\* on the border and exactly one path joins them through border cells that
\* are Empty or of the colour; the cells painted are the Empty cells of that
\* path, and with two or more such paths nothing is painted for the colour.
C16_UniqueBorderPathOnly ==
    (todo = <<"bf">> /\ bf_pc = "idle")
    => LET endpoints == get_endpoints(input)
       IN \A c \in DOMAIN endpoints :
             LET painted == PaintedFor(input, bf_grid, c)
                 routes == BorderPaths(input, endpoints, c)
             IN painted # {}
                => /\ on_border(endpoints[c][1], input.width, input.height)
                   /\ on_border(endpoints[c][2], input.width, input.height)
                   /\ Cardinality(routes) = 1
                   /\ \A path \in routes :
                         painted = {p \in Range(path) : get(input, p).kind = "Empty"}

\* C17: every write of fill_guaranteed targets a cell that is Empty at the
\* moment of the write, also when two colours' paths of one pass share a
\* cell, and every colour painted for in a pass has its endpoints connected
\* when the pass ends.
C17_WritesOnlyEmpty ==
    /\ (fg_pc = "apply" /\ fg_updates # <<>>)
       => get(fg_grid, Head(fg_updates)[1]).kind = "Empty"
    /\ fg_pc \in {"collect", "done"}
       => \A i \in 1..Len(fg_solved_colours) :
             connected(fg_grid, fg_solved_colours[i],
                       fg_endpoints[fg_solved_colours[i]][1],
                       fg_endpoints[fg_solved_colours[i]][2])

\* C18: when the search below a candidate path fails, the frame resets to
\* Empty exactly the cells it painted for that candidate, and no cell that
\* was not Empty when the frame painted is changed.
C18_UndoExact ==
    [][(Running("bf") /\ bf_pc = "ret" /\ bf_stack # <<>> /\ bf_ret = FALSE)
       => LET frame == bf_stack[Len(bf_stack)]
          IN /\ {p \in DOMAIN bf_grid.cells :
                    bf_grid.cells[p].kind # "Empty" /\ bf_grid'.cells[p].kind = "Empty"}
                = frame.painted
             /\ \A p \in DOMAIN bf_grid.cells \ frame.painted :
                   bf_grid'.cells[p] = bf_grid.cells[p]]_vars

\* C19: solve_astar removes from open a state of least f; among the states
\* of that f one of least h (fewest Empty cells); among those the one
\* inserted first.
C19_PopOrder ==
    [][(as_pc = "pop" /\ as_open # <<>>)
       => \E i \in 1..Len(as_open) :
             /\ as_state' = Some(as_open[i])
             /\ as_open' = SubSeq(as_open, 1, i - 1) \o SubSeq(as_open, i + 1, Len(as_open))
             /\ \A j \in 1..Len(as_open) :
                   \/ as_open[j].estimate > as_open[i].estimate
                   \/ /\ as_open[j].estimate = as_open[i].estimate
                      /\ \/ heuristic(as_open[j].grid) > heuristic(as_open[i].grid)
                         \/ /\ heuristic(as_open[j].grid) = heuristic(as_open[i].grid)
                            /\ j >= i]_vars

\* C20: a popped state is discarded as a duplicate exactly when a state with
\* the same cell grid was popped before, and no grid has its successors
\* pushed twice, the grid being the one left by the forced-move loop.
C20_ClosedSetExact ==
    [][/\ (as_pc = "pop" /\ as_open # <<>>)
          => (grid_hash(as_state'[1].grid) \in as_visited
              <=> as_state'[1].grid \in as_handled)
       /\ (as_pc = "forced" /\ as_open' # as_open)
          => as_state[1].grid \notin as_expanded]_vars

\* C21: stranded reports infeasible whenever an unfinished colour has no empty
\* region adjacent to both its head and its goal, and does not report
\* infeasible when every unfinished colour has such a region or has its head
\* next to its goal (and no region is orphaned).
C21_StrandedColour ==
    [][(as_pc = "pop" /\ as_open # <<>>)
       => LET state == as_state'[1]
          IN (grid_hash(state.grid) \notin as_visited /\ ~ dead_end(state.grid))
             => /\ StrandedColour(state) => as_pc' = "pop"
                /\ (~ StrandedColour(state) /\ ~ OrphanRegion(state))
                   => as_pc' = "forced"]_vars

\* C22: stranded reports infeasible whenever some region of Empty cells is
\* adjacent to no unfinished colour's head or goal, a region no colour
\* touches included.
C22_OrphanRegion ==
    [][(as_pc = "pop" /\ as_open # <<>>)
       => LET state == as_state'[1]
          IN (grid_hash(state.grid) \notin as_visited /\ ~ dead_end(state.grid)
              /\ OrphanRegion(state))
             => as_pc' = "pop"]_vars

\* C23: the colour whose head solve_astar extends at an expansion is an
\* unfinished colour with the fewest Empty cells next to its head, and among
\* the colours tied on that number the earliest in colour tag order.
C23_ActiveColour ==
    [][(as_pc = "forced" /\ Len(as_open') > Len(as_open))
       => LET state == as_state[1]
              pushed == as_open'[Len(as_open')]
              active == CHOOSE c \in DOMAIN state.paths : pushed.paths[c] # state.paths[c]
              moves(c) == Len(head_moves(state.grid, state.paths, c))
          IN /\ active \in Unfinished(state)
             /\ \A c \in Unfinished(state) :
                   \/ moves(active) < moves(c)
                   \/ moves(active) = moves(c) /\ ColourIndex(active) <= ColourIndex(c)]_vars

\* C24: every successor solve_astar pushes extends one colour's path by one
\* cell next to the head, a cell that is Empty in the parent grid or that
\* colour's goal endpoint; the cell is painted if it was Empty, nothing else
\* changes, and the cost is the parent's plus one.
C24_SuccessorShape ==
    [][(as_pc = "forced" /\ Len(as_open') > Len(as_open))
       => \A k \in (Len(as_open) + 1)..Len(as_open') :
             LET parent == as_state[1]
                 child == as_open'[k]
             IN \E c \in Unfinished(parent) :
                \E n \in Range(neighbors(last(parent.paths[c]),
                                         parent.grid.width, parent.grid.height)) :
                   /\ child.paths = [parent.paths EXCEPT ![c] = Append(@, n)]
                   /\ \/ get(parent.grid, n).kind = "Empty"
                      \/ n = parent.endpoints[c][2]
                   /\ child.grid = IF get(parent.grid, n).kind = "Empty"
                                   THEN set(parent.grid, n, Path(c, FALSE))
                                   ELSE parent.grid
                   /\ child.endpoints = parent.endpoints
                   /\ child.cost = parent.cost + 1]_vars

\* C25: in a satisfying assignment of the CNF of solve_sat the direction type
\* selected for a non-endpoint cell names two in-bounds neighbours, and the
\* cell has exactly two in-bounds neighbours of its own colour.
C25_DirectionsInBounds ==
    (sat_pc = "done" /\ sat_model # NoneOpt)
    => \A p \in Range(non_endpoints(input)) :
          /\ Len(valid_neighbors(input, p, sat_model[1].dir[p])) = 2
          /\ Cardinality({n \in Range(neighbors(p, input.width, input.height)) :
                             sat_model[1].col[n] = sat_model[1].col[p]}) = 2

\* C26: solve_sat leaves its input as it was; with a model it returns the
\* grid in which every cell has the colour whose variable is true, as an
\* Endpoint where the input has an endpoint and as a Path elsewhere; without
\* a model it returns None, and so does the decoding of an assignment in
\* which some cell has no true colour variable.
C26_Decoding ==
    [][(Running("sat") /\ sat_pc = "idle")
       => /\ input' = input
          /\ IF sat_model' = NoneOpt
             THEN sat_result' = NoneOpt
             ELSE LET col == sat_model'[1].col
                      dir == sat_model'[1].dir
                  IN /\ sat_result' # NoneOpt
                     /\ sat_result'[1].width = input.width
                     /\ sat_result'[1].height = input.height
                     /\ \A p \in DOMAIN input.cells :
                           get(sat_result'[1], p) =
                              IF get(input, p).kind = "Endpoint"
                              THEN Endpoint(col[p], FALSE)
                              ELSE Path(col[p], FALSE)
                     /\ \A colours \in IterationOrders(DOMAIN get_endpoints(input)) :
                        \A p \in DOMAIN input.cells :
                           decode(input, colours,
                                  true_vars_of(input, colours, col, dir)
                                     \ {var_map(input, colours, p, col[p])}) = NoneOpt]_vars

\* solve_sat has returned a grid with an Endpoint and a Path cell in it.
C26_Witness ==
    /\ sat_pc = "done" /\ sat_result # NoneOpt
    /\ \E p, q \in DOMAIN input.cells :
          /\ get(input, p).kind = "Empty" /\ get(sat_result[1], p).kind = "Path"
          /\ get(sat_result[1], q).kind = "Endpoint"

\* C27: solve_astar terminates: every iteration of the forced-move loop that
\* finds a move turns exactly one Empty cell into a Path cell and changes no
\* other cell, the call returns a grid only from a solved state and None
\* only with an empty open set, and every run of it returns.
C27_Terminates ==
    /\ [][(as_pc = "forced" /\ as_pc' = "forced")
          => LET before == as_state[1].grid
                 after == as_state'[1].grid
                 changed == {p \in DOMAIN before.cells : get(after, p) # get(before, p)}
             IN /\ Cardinality(changed) = 1
                /\ \A p \in changed : /\ get(before, p).kind = "Empty"
                                      /\ get(after, p).kind = "Path"
                /\ heuristic(after) = heuristic(before) - 1]_vars
    /\ [](as_pc = "done"
          => IF as_result = NoneOpt THEN as_open = <<>>
             ELSE /\ as_result[1] = as_state[1].grid
                  /\ is_solved(as_result[1], as_state[1].endpoints))
    /\ <>(as_pc = "done")

\* solve_astar has returned after more than one iteration of its main loop
\* and after forced moves on the last state it popped.
C27_Witness ==
    /\ as_pc = "done"
    /\ Cardinality(as_visited) >= 2
    /\ as_state # NoneOpt /\ as_state[1].grid \notin as_handled

\* A head path as C28 describes it: from the colour's start endpoint, through
\* pairwise distinct cells, each next to the one before and each holding the
\* colour in the state's grid, with the goal endpoint nowhere but at its end.
WellFormedPath(state, colour) ==
    LET path == state.paths[colour]
        goal == state.endpoints[colour][2]
    IN /\ path[1] = state.endpoints[colour][1]
       /\ \A i, j \in 1..Len(path) : i # j => path[i] # path[j]
       /\ \A i \in 1..(Len(path) - 1) :
             path[i + 1] \in Range(neighbors(path[i], state.grid.width, state.grid.height))
       /\ \A i \in 1..Len(path) : HasColour(get(state.grid, path[i]), colour)
       /\ \A i \in 1..(Len(path) - 1) : path[i] # goal

\* C28: in the state solve_astar works on and in every state of the open
\* set, every colour's head path is well formed.
C28_PathsWellFormed ==
    \A state \in Range(as_state) \cup Range(as_open) :
        \A colour \in DOMAIN state.paths : WellFormedPath(state, colour)

\* C29: a forced move (colour, cell) of solve_astar's forced-move loop has an
\* Empty cell next to the head of a colour that is not finished, and the
\* state after it can be completed to a solved grid whenever the state
\* before it can.
C29_ForcedMovesPreserve ==
    [][(as_pc = "forced" /\ as_pc' = "forced")
       => LET state == as_state[1]
              forced == get_forced_moves(state.grid, state.endpoints, state.paths,
                                         as_porder)
              colour == forced[1][1]
              cell == forced[1][2]
          IN /\ get(state.grid, cell).kind = "Empty"
             /\ colour \in Unfinished(state)
             /\ cell \in Range(neighbors(last(state.paths[colour]),
                                         state.grid.width, state.grid.height))
             /\ HasCompletion(state.grid) => HasCompletion(as_state'[1].grid)]_vars

\* ------------------------------------------------------- tui.rs, stepwise
\* The terminal receives an event; it waits there until run reads it.
KeyPress ==
    /\ run_pc \notin {"exited", "failed"}
    /\ Len(key_events) < MaxKeys
    /\ \E event \in Events :
          key_events' = Append(key_events, [event |-> event, during |-> app.state])
    /\ UNCHANGED <<app, run_pc, input, todo, bf_vars, as_vars, sat_vars, api_vars, fg_vars>>

\* terminal.draw and the test of app.state that follows it.
Run_Draw ==
    /\ run_pc = "draw"
    /\ run_pc' = IF app.state = "Solving" THEN "step" ELSE "read"
    /\ UNCHANGED <<app, key_events, input, todo, bf_vars, as_vars, sat_vars, api_vars, fg_vars>>

\* app.step_solve() of the Solving branch.
Run_StepSolve ==
    /\ run_pc = "step"
    /\ \E order \in IF app.solving_grid = NoneOpt THEN {<<>>}
                    ELSE IterationOrders(DOMAIN get_endpoints(app.solving_grid[1])) :
          app' = step_solve(app, order)
    /\ run_pc' = "poll"
    /\ UNCHANGED <<key_events, input, todo, bf_vars, as_vars, sat_vars, api_vars, fg_vars>>

\* poll(0) of the Solving branch, and the read that follows a true answer.
Run_Poll ==
    /\ run_pc = "poll"
    /\ IF key_events = <<>>
       THEN UNCHANGED <<app, key_events>>
       ELSE /\ app' = on_event(app, Head(key_events).event)
            /\ key_events' = Tail(key_events)
    /\ run_pc' = "check"
    /\ UNCHANGED <<input, todo, bf_vars, as_vars, sat_vars, api_vars, fg_vars>>

\* The blocking event::read of the other branch.
Run_Read ==
    /\ run_pc = "read"
    /\ key_events # <<>>
    /\ app' = on_event(app, Head(key_events).event)
    /\ key_events' = Tail(key_events)
    /\ run_pc' = "check"
    /\ UNCHANGED <<input, todo, bf_vars, as_vars, sat_vars, api_vars, fg_vars>>

\* `if app.should_quit { break; }`
Run_Check ==
    /\ run_pc = "check"
    /\ run_pc' = IF app.should_quit THEN "exited" ELSE "draw"
    /\ UNCHANGED <<app, key_events, input, todo, bf_vars, as_vars, sat_vars, api_vars, fg_vars>>

\* An io::Error out of draw, poll or read: `?` returns it from run.
Run_IoError ==
    /\ run_pc \in {"draw", "poll", "read"}
    /\ run_pc' = "failed"
    /\ UNCHANGED <<app, key_events, input, todo, bf_vars, as_vars, sat_vars, api_vars, fg_vars>>

NextApp ==
    KeyPress \/ Run_Draw \/ Run_StepSolve \/ Run_Poll \/ Run_Read \/ Run_Check
    \/ Run_IoError

\* tui::run on a new App; no solver is called from outside it.
SpecApp == InitFrom({PuzzleFiles[1]}, <<>>) /\ [][NextApp]_vars

\* C30: the App's state changes only from PuzzleSelection to Solving with
\* a grid loaded, from Solving to ViewingSolution by step_solve, and from
\* ViewingSolution to PuzzleSelection; an event that arrived while the App
\* was Solving changes nothing in the App when it is read; step_solve takes a
\* Solving App to ViewingSolution; and in ViewingSolution solved_grid and
\* solve_result are set.
C30_AppStates ==
    /\ [][app'.state # app.state
          => \/ /\ app.state = "PuzzleSelection" /\ app'.state = "Solving"
                /\ app'.current_grid # NoneOpt
             \/ /\ app.state = "Solving" /\ app'.state = "ViewingSolution"
                /\ run_pc = "step"
             \/ app.state = "ViewingSolution" /\ app'.state = "PuzzleSelection"]_vars
    /\ [][(run_pc \in {"poll", "read"} /\ key_events # <<>>
           /\ Head(key_events).during = "Solving" /\ run_pc' = "check")
          => app' = app]_vars
    /\ [][(run_pc = "step" /\ app.state = "Solving" /\ run_pc' = "poll")
          => app'.state = "ViewingSolution"]_vars
    /\ [](app.state = "ViewingSolution"
          => app.solved_grid # NoneOpt /\ app.solve_result # NoneOpt)

====
